---- MODULE Spec2Model ----
(***************************************************************************)
(* A model of rustifact's declaration emitter and artifact protocol        *)
(* (src/src/lib.rs): the build script's write_... macros compose a         *)
(* declaration, parse it, and write it beneath OUT_DIR; allow_export reads *)
(* a private artifact back and re-emits it as public; use_symbols,         *)
(* export_symbols and init_symbols include the files in the main crate.    *)
(*                                                                         *)
(* Strings are sequences of one-character strings.  A text (a file's       *)
(* content, a String handed to the parser) is a sequence of lexemes, each  *)
(* a string: a token, or a run of white space.  A token stream is a        *)
(* sequence of tokens.                                                     *)
(*                                                                         *)
(* File writes are taken to succeed (the .unwrap() on std::fs::write never *)
(* fires): the environment provides a writable OUT_DIR.                    *)
(***************************************************************************)
EXTENDS Integers, Sequences, FiniteSets, TLC

VARIABLES
    fs,        \* OUT_DIR: the set of files, each [path, text]
    pkg,       \* CARGO_PKG_NAME of the build script that is running
    status,    \* "running" (build script in main), "done", "panicked"
    diag,      \* the panic message of the run, NoDiag when none
    last,      \* history: the call made last, the text it composed, its path
    wrote,     \* history: every file write so far, [pkg, op, id, vis, path]
    included,  \* the main crate's last include!: [kind, id, path, found, text]
    steps,     \* macro invocations so far
    script,    \* the calls the build script has made in its first run, in order
    pos,       \* in a second run of the same build script: the next call of script
    mode,      \* "first": the build script's first run; "again": its second run
    snap,      \* what the first run left: [fs, status, wrote]
    edits,     \* how many times the build script has been edited
    builder    \* the map builder of the build script: [keys, values]

vars ==
    <<fs, pkg, status, diag, last, wrote, included, steps, script, pos, mode, snap, edits,
      builder>>
rerunVars == <<script, pos, mode, snap, edits, builder>>

(***************************************************************************)
(* Bounds.                                                                 *)
(***************************************************************************)
MaxSteps == 3
\* the calls of a build script that is run twice, and the edits of such a script
MaxScript == 2
MaxEdits == 1
\* the characters of a package name and a symbol name together
MaxNameChars == 4
\* the length of a container of a sample, and the nesting of the samples of every shape
MaxLen == 2
MaxNest == 3
\* entries added to a map builder, and the seeds the hash generator tries
MaxEntries == 2
MaxSeed == 2
\* the tuples that implement ToTokenStream have 2 to 12 slots
MaxTupleArity == 12

(***************************************************************************)
(* Lexemes.                                                                *)
(***************************************************************************)
Sp == <<" ">>
Nl == <<"\n">>
KwPub == <<"p", "u", "b">>
KwStatic == <<"s", "t", "a", "t", "i", "c">>
KwConst == <<"c", "o", "n", "s", "t">>
KwFn == <<"f", "n">>
KwStruct == <<"s", "t", "r", "u", "c", "t">>
IdVec == <<"V", "e", "c">>
IdVecMacro == <<"v", "e", "c">>
PColon == <<":">>
PEq == <<"=">>
PSemi == <<";">>
PComma == <<",">>
PBang == <<"!">>
PLt == <<"<">>
PGt == <<">">>
PArrow == <<"-", ">">>
PLParen == <<"(">>
PRParen == <<")">>
PLBrace == <<"{">>
PRBrace == <<"}">>
PLBrack == <<"[">>
PRBrack == <<"]">>
PMinus == <<"-">>
PAmp == <<"&">>
PPath == <<":", ":">>
IdSome == <<"S", "o", "m", "e">>
IdNone == <<"N", "o", "n", "e">>
IdTrue == <<"t", "r", "u", "e">>
IdFalse == <<"f", "a", "l", "s", "e">>

Keywords == {KwPub, KwStatic, KwConst, KwFn, KwStruct}
Digits == {"0", "1", "2", "3", "4", "5", "6", "7", "8", "9"}
IdentStart ==
    {"A", "B", "C", "F", "G", "M", "N", "O", "S", "T", "V", "a", "b", "c", "d", "e", "f", "i",
     "k", "m", "p", "r", "s", "t", "u", "v", "x", "y", "_"}

IsWs(l) == l \in {Sp, Nl}
\* a number, a character or a string
IsLit(l) == l # <<>> /\ l[1] \in Digits \cup {"'", "\""}
IsIdent(l) == l # <<>> /\ l[1] \in IdentStart /\ l \notin Keywords

(***************************************************************************)
(* TokenStream::to_string: the tokens separated by single spaces.          *)
(***************************************************************************)
to_string(toks) ==
    [i \in 1..(IF toks = <<>> THEN 0 ELSE 2 * Len(toks) - 1) |->
        IF i % 2 = 1 THEN toks[(i + 1) \div 2] ELSE Sp]

(* The lexer of syn/proc_macro2: white space separates tokens and is dropped. *)
Lex(text) == SelectSeq(text, LAMBDA l : ~IsWs(l))

(***************************************************************************)
(* syn::parse_file, as a recursive-descent parser of the subset of Rust    *)
(* the emitter composes.  Each Parse... takes the tokens and a position    *)
(* and returns the position after the phrase, or 0 when there is none.     *)
(***************************************************************************)
At(toks, i) == IF i >= 1 /\ i <= Len(toks) THEN toks[i] ELSE <<>>

\* the position after a phrase that ends before the closing token at j
After(j) == IF j = 0 THEN 0 ELSE j + 1
\* the phrase ends at e and the token tok follows it
ExpectTok(toks, e, tok) == IF e # 0 /\ At(toks, e) = tok THEN e + 1 ELSE 0

\* a type: T, T<type>, [type; n]
ArrayTypeEnd(toks, j) ==
    IF j # 0 /\ At(toks, j) = PSemi /\ IsLit(At(toks, j + 1)) /\ At(toks, j + 2) = PRBrack
    THEN j + 3 ELSE 0

RECURSIVE ParseType(_, _)
ParseType(toks, i) ==
    IF At(toks, i) = PLBrack THEN ArrayTypeEnd(toks, ParseType(toks, i + 1))
    ELSE IF IsIdent(At(toks, i))
    THEN IF At(toks, i + 1) = PLt THEN ExpectTok(toks, ParseType(toks, i + 2), PGt)
         ELSE i + 1
    ELSE 0

RECURSIVE ParseExpr(_, _)
RECURSIVE ParseExprList(_, _, _)
RECURSIVE ExprListRest(_, _, _)
RECURSIVE ParseFieldInits(_, _)
RECURSIVE FieldInitsRest(_, _)

\* expr, expr, ... with an optional trailing comma, then close: the position of close
ParseExprList(toks, i, close) ==
    IF At(toks, i) = close THEN i ELSE ExprListRest(toks, ParseExpr(toks, i), close)
ExprListRest(toks, j, close) ==
    IF j = 0 THEN 0
    ELSE IF At(toks, j) = PComma THEN ParseExprList(toks, j + 1, close)
    ELSE IF At(toks, j) = close THEN j
    ELSE 0

\* ident: expr, ... with an optional trailing comma, then "}": the position of "}"
ParseFieldInits(toks, i) ==
    IF At(toks, i) = PRBrace THEN i
    ELSE IF IsIdent(At(toks, i)) /\ At(toks, i + 1) = PColon
    THEN FieldInitsRest(toks, ParseExpr(toks, i + 2))
    ELSE 0
FieldInitsRest(toks, j) ==
    IF j = 0 THEN 0
    ELSE IF At(toks, j) = PComma THEN ParseFieldInits(toks, j + 1)
    ELSE IF At(toks, j) = PRBrace THEN j
    ELSE 0

\* a path: ident :: ident :: ...; the position after it
RECURSIVE ParsePath(_, _)
ParsePath(toks, i) ==
    IF ~IsIdent(At(toks, i)) THEN 0
    ELSE IF At(toks, i + 1) = PPath THEN ParsePath(toks, i + 2)
    ELSE i + 1

\* after the path that ends before j: { field: expr, ... }, (exprs), or nothing
PathExprRest(toks, j) ==
    IF j = 0 THEN 0
    ELSE IF At(toks, j) = PLBrace THEN After(ParseFieldInits(toks, j + 1))
    ELSE IF At(toks, j) = PLParen THEN After(ParseExprList(toks, j + 1, PRParen))
    ELSE j

\* an expression: a literal, -literal, &expr, (exprs), [exprs], vec![exprs], a path,
\* path(exprs), path { field: expr, ... }
ParseExpr(toks, i) ==
    IF IsLit(At(toks, i)) THEN i + 1
    ELSE IF At(toks, i) = PMinus THEN (IF IsLit(At(toks, i + 1)) THEN i + 2 ELSE 0)
    ELSE IF At(toks, i) = PAmp THEN ParseExpr(toks, i + 1)
    ELSE IF At(toks, i) = PLParen THEN After(ParseExprList(toks, i + 1, PRParen))
    ELSE IF At(toks, i) = PLBrack THEN After(ParseExprList(toks, i + 1, PRBrack))
    ELSE IF At(toks, i) = IdVecMacro /\ At(toks, i + 1) = PBang /\ At(toks, i + 2) = PLBrack
    THEN After(ParseExprList(toks, i + 3, PRBrack))
    ELSE PathExprRest(toks, ParsePath(toks, i))

\* [pub] ident: type, ... with an optional trailing comma, then "}": the position of "}"
RECURSIVE ParseFields(_, _)
RECURSIVE FieldsRest(_, _)
ParseFields(toks, i) ==
    IF At(toks, i) = PRBrace THEN i
    ELSE IF At(toks, i) = KwPub
    THEN IF IsIdent(At(toks, i + 1)) /\ At(toks, i + 2) = PColon
         THEN FieldsRest(toks, ParseType(toks, i + 3)) ELSE 0
    ELSE IF IsIdent(At(toks, i)) /\ At(toks, i + 1) = PColon
         THEN FieldsRest(toks, ParseType(toks, i + 2)) ELSE 0
FieldsRest(toks, j) ==
    IF j = 0 THEN 0
    ELSE IF At(toks, j) = PComma THEN ParseFields(toks, j + 1)
    ELSE IF At(toks, j) = PRBrace THEN j
    ELSE 0

\* after the type that ends before j: the token open, an expression, the token close
ItemRest(toks, j, open, close) ==
    IF j # 0 /\ At(toks, j) = open THEN ExpectTok(toks, ParseExpr(toks, j + 1), close)
    ELSE 0

\* one item, its keyword at k:  static|const NAME: TYPE = EXPR;
\* fn NAME() -> TYPE { EXPR }   struct NAME { fields }
ParseItemAt(toks, k) ==
    IF At(toks, k) \in {KwStatic, KwConst}
    THEN IF IsIdent(At(toks, k + 1)) /\ At(toks, k + 2) = PColon
         THEN ItemRest(toks, ParseType(toks, k + 3), PEq, PSemi) ELSE 0
    ELSE IF At(toks, k) = KwFn
    THEN IF IsIdent(At(toks, k + 1)) /\ At(toks, k + 2) = PLParen
            /\ At(toks, k + 3) = PRParen /\ At(toks, k + 4) = PArrow
         THEN ItemRest(toks, ParseType(toks, k + 5), PLBrace, PRBrace) ELSE 0
    ELSE IF At(toks, k) = KwStruct
    THEN IF IsIdent(At(toks, k + 1)) /\ At(toks, k + 2) = PLBrace
         THEN After(ParseFields(toks, k + 3)) ELSE 0
    ELSE 0

\* one item with its optional visibility
ParseItem(toks, i) == ParseItemAt(toks, IF At(toks, i) = KwPub THEN i + 1 ELSE i)

\* the items of a file from position i on: the syntax tree, one token sequence an item;
\* err is the position of the item that does not parse
ParseOk(tree) == [ok |-> TRUE, tree |-> tree, err |-> 0]
ParseErr(i) == [ok |-> FALSE, tree |-> <<>>, err |-> i]
ConsItem(item, r) == IF r.ok THEN ParseOk(<<item>> \o r.tree) ELSE r

RECURSIVE ParseItems(_, _)
RECURSIVE ItemsRest(_, _, _)
ParseItems(toks, i) ==
    IF i > Len(toks) THEN ParseOk(<<>>) ELSE ItemsRest(toks, i, ParseItem(toks, i))
ItemsRest(toks, i, j) ==
    IF j = 0 THEN ParseErr(i) ELSE ConsItem(SubSeq(toks, i, j - 1), ParseItems(toks, j))

\* Ok(syntax_tree) or Err(e)
parse_file(text) == ParseItems(Lex(text), 1)

(***************************************************************************)
(* prettyplease::unparse: each item on a line of its own, its tokens laid  *)
(* out with the usual spacing, the trailing comma of a bracketed list      *)
(* dropped.                                                                *)
(***************************************************************************)
NoSpaceBefore == {PColon, PSemi, PComma, PRParen, PRBrack, PLt, PGt, PBang, PPath}
NoSpaceAfter == {PLParen, PLBrack, PLt, PBang, PMinus, PAmp, PPath}

\* each token paired with the token after it
WithNext(toks) == [i \in 1..Len(toks) |-> <<toks[i], At(toks, i + 1)>>]
Firsts(pairs) == [i \in 1..Len(pairs) |-> pairs[i][1]]

DropTrailingComma(toks) ==
    Firsts(SelectSeq(WithNext(toks), LAMBDA pr : ~(pr[1] = PComma /\ pr[2] = PRBrack)))

\* between two tokens a space, or nothing (the empty lexeme, dropped)
Gap(l, r) ==
    IF l \in NoSpaceAfter \/ r \in NoSpaceBefore \/ (r = PLParen /\ IsIdent(l)) THEN <<>>
    ELSE Sp
Layout(toks) ==
    SelectSeq([i \in 1..(IF toks = <<>> THEN 0 ELSE 2 * Len(toks) - 1) |->
                  IF i % 2 = 1 THEN toks[(i + 1) \div 2]
                  ELSE Gap(toks[i \div 2], toks[i \div 2 + 1])],
              LAMBDA l : l # <<>>)

RECURSIVE unparse(_)
unparse(tree) ==
    IF tree = <<>> THEN <<>>
    ELSE Layout(DropTrailingComma(Head(tree))) \o <<Nl>> \o unparse(Tail(tree))

(***************************************************************************)
(* The artifact paths.                                                     *)
(***************************************************************************)
OutDir == <<"o">>
StrRustifact == <<"/", "r", "u", "s", "t", "i", "f", "a", "c", "t", "_">>
StrRustifactPub ==
    <<"/", "r", "u", "s", "t", "i", "f", "a", "c", "t", "_", "_", "p", "u", "b", "_", "_">>
StrDotRs == <<".", "r", "s">>
Underscore == <<"_">>

\* both visibilities under the prefix "rustifact_"
__path_from_id_OnePrefix(out, p, id_name, visibility) ==
    out \o StrRustifact \o p \o Underscore \o id_name \o StrDotRs

\* format!("{}/rustifact_{}_{}.rs", OUT_DIR, CARGO_PKG_NAME, id), or "rustifact__pub__"
__path_from_id(out, p, id_name, visibility) ==
    IF visibility = "private"
    THEN out \o StrRustifact \o p \o Underscore \o id_name \o StrDotRs
    ELSE out \o StrRustifactPub \o p \o Underscore \o id_name \o StrDotRs

\* use_symbols!: concat!(env!("OUT_DIR"), "/rustifact_", env!("CARGO_PKG_NAME"), "_", id, ".rs")
use_symbols_path(out, p, id_name) ==
    out \o StrRustifact \o p \o Underscore \o id_name \o StrDotRs

\* export_symbols! with the prefix of use_symbols!
export_symbols_path_Private(out, p, id_name) ==
    out \o StrRustifact \o p \o Underscore \o id_name \o StrDotRs

\* export_symbols!: the same with "/rustifact__pub__"
export_symbols_path(out, p, id_name) ==
    out \o StrRustifactPub \o p \o Underscore \o id_name \o StrDotRs

\* init_symbols!: ..., "_", stringify!($id_struct), "_", stringify!($id_vals), ".rs"
init_symbols_path(out, p, id_struct, id_vals) ==
    out \o StrRustifact \o p \o Underscore \o id_struct \o Underscore \o id_vals \o StrDotRs

(***************************************************************************)
(* The file system beneath OUT_DIR.                                        *)
(***************************************************************************)
FsExists(f, path) == \E e \in f : e.path = path
FsRead(f, path) == (CHOOSE e \in f : e.path = path).text
\* a write that appends to what the file held
FsWrite_Append(f, path, text) ==
    {e \in f : e.path # path}
    \cup {[path |-> path,
           text |-> (IF FsExists(f, path) THEN FsRead(f, path) ELSE <<>>) \o text]}

\* std::fs::write: creates the file or replaces its whole content
FsWrite(f, path, text) == {e \in f : e.path # path} \cup {[path |-> path, text |-> text]}

(***************************************************************************)
(* What one macro invocation does: the file system after it, the panic it  *)
(* raised (NoDiag when it returned), and the history of the call.          *)
(***************************************************************************)
NoDiag == [kind |-> "none", sym |-> <<>>, err |-> 0, path |-> <<>>]
NoCall == [op |-> "none", id |-> <<>>, vis |-> "private", text |-> <<>>, path |-> <<>>]
NoInclude == [kind |-> "none", id |-> <<>>, path |-> <<>>, found |-> FALSE, text |-> <<>>]
NoSnap == [fs |-> {}, status |-> "none", wrote |-> {}]
\* MapBuilder::new(): phf_codegen::Map with no keys and no values
NoBuilder == [kind |-> "Map", keys |-> <<>>, values |-> <<>>]

\* stringify!(id_name) in the panic of __write_tokens_with_internal: the metavariable is
\* written without its $, so the macro stringifies the identifier id_name itself
StringifyIdName == <<"i", "d", "_", "n", "a", "m", "e">>

\* the history of a call and of its file write
CallOf(op, id_name, visibility, text, path) ==
    [op |-> op, id |-> id_name, vis |-> visibility, text |-> text, path |-> path]
WriteOf(op, id_name, visibility, path) ==
    {[pkg |-> pkg, op |-> op, id |-> id_name, vis |-> visibility, path |-> path]}

\* the Err arm panics without writing the unformatted text
WriteParsed_NoEvidence(op, id_name, visibility, text, path, r) ==
    IF r.ok
    THEN [fs |-> FsWrite(fs, path, unparse(r.tree)), diag |-> NoDiag,
          last |-> CallOf(op, id_name, visibility, text, path),
          wrote |-> WriteOf(op, id_name, visibility, path)]
    ELSE [fs |-> fs,
          diag |-> [kind |-> "parse", sym |-> StringifyIdName, err |-> r.err,
                    path |-> path],
          last |-> CallOf(op, id_name, visibility, text, path),
          wrote |-> {}]

\* the Err arm writes the unformatted text and returns
WriteParsed_Silent(op, id_name, visibility, text, path, r) ==
    [fs |-> FsWrite(fs, path, IF r.ok THEN unparse(r.tree) ELSE text), diag |-> NoDiag,
     last |-> CallOf(op, id_name, visibility, text, path),
     wrote |-> WriteOf(op, id_name, visibility, path)]

\* the match on parse_file's result r
WriteParsed(op, id_name, visibility, text, path, r) ==
    IF r.ok
    THEN [fs |-> FsWrite(fs, path, unparse(r.tree)), diag |-> NoDiag,
          last |-> CallOf(op, id_name, visibility, text, path),
          wrote |-> WriteOf(op, id_name, visibility, path)]
    ELSE [fs |-> FsWrite(fs, path, text),
          diag |-> [kind |-> "parse", sym |-> StringifyIdName, err |-> r.err,
                    path |-> path],
          last |-> CallOf(op, id_name, visibility, text, path),
          wrote |-> WriteOf(op, id_name, visibility, path)]

__write_tokens_with_internal(op, id_name, visibility, text) ==
    WriteParsed(op, id_name, visibility, text,
                __path_from_id(OutDir, pkg, id_name, visibility), parse_file(text))

WriteRaw(op, id_name, text, path) ==
    [fs |-> FsWrite(fs, path, text), diag |-> NoDiag,
     last |-> CallOf(op, id_name, "private", text, path),
     wrote |-> WriteOf(op, id_name, "private", path)]

__write_tokens_with_internal_raw(op, id_name, text) ==
    WriteRaw(op, id_name, text, __path_from_id(OutDir, pkg, id_name, "private"))

\* a panic raised before anything is written
\* a panic that leaves an empty file at the private path
PanicBeforeWrite_Touch(op, id_name, kind, sym) ==
    [fs |-> FsWrite(fs, __path_from_id(OutDir, pkg, id_name, "private"), <<>>),
     diag |-> [kind |-> kind, sym |-> sym, err |-> 0, path |-> <<>>],
     last |-> [op |-> op, id |-> id_name, vis |-> "private", text |-> <<>>, path |-> <<>>],
     wrote |-> {}]

PanicBeforeWrite(op, id_name, kind, sym) ==
    [fs |-> fs, diag |-> [kind |-> kind, sym |-> sym, err |-> 0, path |-> <<>>],
     last |-> [op |-> op, id |-> id_name, vis |-> "private", text |-> <<>>, path |-> <<>>],
     wrote |-> {}]

\* const_static NAME: TYPE = EXPR;
__write_with_internal(op, const_static, id_name, arr_type, tokens_data) ==
    __write_tokens_with_internal(op, id_name, "private",
        to_string(<<const_static, id_name, PColon>> \o arr_type \o <<PEq>>
                       \o tokens_data \o <<PSemi>>))

\* fn NAME() -> TYPE { EXPR }
__write_fn_with_internal(op, const_static, id_name, vec_type, tokens_data) ==
    __write_tokens_with_internal(op, id_name, "private",
        to_string(<<KwFn, id_name, PLParen, PRParen, PArrow>> \o vec_type
                       \o <<PLBrace>> \o tokens_data \o <<PRBrace>>))

write_static(id, t, data) == __write_with_internal("write_static", KwStatic, id, t, data)
write_const(id, t, data) == __write_with_internal("write_const", KwConst, id, t, data)
write_fn(id, t, data) == __write_fn_with_internal("write_fn", <<>>, id, t, data)

\* allow_export that returns when the private artifact is missing
allow_export_Unchecked(id_name) ==
    IF FsExists(fs, __path_from_id(OutDir, pkg, id_name, "private"))
    THEN __write_tokens_with_internal("allow_export", id_name, "public",
             <<KwPub, Sp>> \o FsRead(fs, __path_from_id(OutDir, pkg, id_name, "private")))
    ELSE [fs |-> fs, diag |-> NoDiag,
          last |-> CallOf("allow_export", id_name, "public", <<>>, <<>>), wrote |-> {}]

\* allow_export that re-emits the private text as it is
allow_export_NoPub(id_name) ==
    IF FsExists(fs, __path_from_id(OutDir, pkg, id_name, "private"))
    THEN __write_tokens_with_internal("allow_export", id_name, "public",
             FsRead(fs, __path_from_id(OutDir, pkg, id_name, "private")))
    ELSE PanicBeforeWrite("allow_export", id_name, "export", id_name)

allow_export(id_name) ==
    LET private_path_str == __path_from_id(OutDir, pkg, id_name, "private")
    IN  IF FsExists(fs, private_path_str)
        THEN __write_tokens_with_internal("allow_export", id_name, "public",
                 <<KwPub, Sp>> \o FsRead(fs, private_path_str))
        ELSE PanicBeforeWrite("allow_export", id_name, "export", id_name)

(***************************************************************************)
(* The array and vector entry points.  build.rs generates, for each        *)
(* dimension d in 1..NUM_DIMS, the arm (d, args) => impl!(d - 1, args) of  *)
(* __array_type, __vector_type, __assert_dim, __get_tokens_array and       *)
(* __get_tokens_vector_fn, and the arm (d, args) => impl!(d, args) of      *)
(* __write_with.  A sample of dimension d is a sequence nested d deep      *)
(* whose leaves are the token streams of its elements.                     *)
(***************************************************************************)
NUM_DIMS == 16

RECURSIVE Flatten(_)
Flatten(ss) == IF ss = <<>> THEN <<>> ELSE Head(ss) \o Flatten(Tail(ss))

DigitChar(n) ==
    CASE n = 0 -> "0" [] n = 1 -> "1" [] n = 2 -> "2" [] n = 3 -> "3" [] n = 4 -> "4"
      [] n = 5 -> "5" [] n = 6 -> "6" [] n = 7 -> "7" [] n = 8 -> "8" [] OTHER -> "9"

\* quote!'s interpolation of a usize: the suffixed literal, as 2usize
UsizeLit(n) == <<DigitChar(n), "u", "s", "i", "z", "e">>

RECURSIVE __assert_dim_impl(_, _)
__assert_dim(dim, arr) == __assert_dim_impl(dim - 1, arr)
\* the arm for 0 requires a non-empty container as well
__assert_dim_impl_EveryLevel(dim, arr) ==
    IF Len(arr) = 0 THEN FALSE
    ELSE IF dim = 0 THEN TRUE
    ELSE __assert_dim(dim, arr[1])

\* TRUE when the assertion passes, FALSE when it panics "too shallow"
__assert_dim_impl(dim, arr) ==
    IF dim = 0 THEN TRUE
    ELSE IF Len(arr) = 0 THEN FALSE
    ELSE __assert_dim(dim, arr[1])

RECURSIVE __array_type_impl(_, _, _)
__array_type(dim, t, data) == __array_type_impl(dim - 1, t, data)
\* the outer length taken from the first element
__array_type_impl_FirstLen(dim, t, data) ==
    IF dim = 0
    THEN <<PLBrack>> \o t \o <<PSemi, UsizeLit(Len(data)), PRBrack>>
    ELSE <<PLBrack>> \o __array_type(dim, t, data[1])
         \o <<PSemi, UsizeLit(Len(data[1])), PRBrack>>

__array_type_impl(dim, t, data) ==
    IF dim = 0
    THEN <<PLBrack>> \o t \o <<PSemi, UsizeLit(Len(data)), PRBrack>>
    ELSE LET inner == __array_type(dim, t, data[1])
         IN  <<PLBrack>> \o inner \o <<PSemi, UsizeLit(Len(data)), PRBrack>>

RECURSIVE __vector_type_impl(_, _, _)
__vector_type(dim, t, data) == __vector_type_impl(dim - 1, t, data)
\* the counting macro skips a depth at each level
__vector_type_impl_SkipOne(dim, t, data) ==
    IF dim <= 1
    THEN <<IdVec, PLt>> \o t \o <<PGt>>
    ELSE <<IdVec, PLt>> \o __vector_type(dim - 1, t, data) \o <<PGt>>

__vector_type_impl(dim, t, data) ==
    IF dim = 0
    THEN <<IdVec, PLt>> \o t \o <<PGt>>
    ELSE LET inner == __vector_type(dim, t, data)
         IN  <<IdVec, PLt>> \o inner \o <<PGt>>

RECURSIVE __get_tokens_array_impl(_, _)
__get_tokens_array(dim, data) == __get_tokens_array_impl(dim - 1, data)
\* each element converted by the closure (the next dimension down), in a bracketed list
__get_tokens_array_multi(dim, data) ==
    <<PLBrack>>
    \o Flatten([i \in 1..Len(data) |-> __get_tokens_array(dim, data[i]) \o <<PComma>>])
    \o <<PRBrack>>
\* the arm for 0 extends the tokens at the front
__get_tokens_array_impl_Reversed(dim, data) ==
    IF dim = 0
    THEN <<PLBrack>>
         \o Flatten([i \in 1..Len(data) |-> data[Len(data) + 1 - i] \o <<PComma>>])
         \o <<PRBrack>>
    ELSE __get_tokens_array_multi(dim, data)

__get_tokens_array_impl(dim, data) ==
    IF dim = 0
    THEN <<PLBrack>> \o Flatten([i \in 1..Len(data) |-> data[i] \o <<PComma>>])
         \o <<PRBrack>>
    ELSE __get_tokens_array_multi(dim, data)

RECURSIVE __get_tokens_vector_fn_impl(_, _)
__get_tokens_vector_fn(dim, data) == __get_tokens_vector_fn_impl(dim - 1, data)
__get_tokens_vector_fn_multi(dim, data) ==
    <<IdVecMacro, PBang, PLBrack>>
    \o Flatten([i \in 1..Len(data) |-> __get_tokens_vector_fn(dim, data[i]) \o <<PComma>>])
    \o <<PRBrack>>
__get_tokens_vector_fn_impl(dim, data) ==
    IF dim = 0
    THEN <<IdVecMacro, PBang, PLBrack>>
         \o Flatten([i \in 1..Len(data) |-> data[i] \o <<PComma>>]) \o <<PRBrack>>
    ELSE __get_tokens_vector_fn_multi(dim, data)

\* without the assertion: $data[0] of an empty sample panics in $get_type
__write_with_impl_NoAssert(op, dim, const_static, id_name, t, data, get_tokens, get_type, write_internal) ==
    IF ~__assert_dim(dim, data)
    THEN PanicBeforeWrite(op, id_name, "index", <<>>)
    ELSE LET tokens_data == IF get_tokens = "__get_tokens_array"
                            THEN __get_tokens_array(dim, data)
                            ELSE __get_tokens_vector_fn(dim, data)
             arr_type == IF get_type = "__array_type"
                         THEN __array_type(dim, t, data)
                         ELSE __vector_type(dim, t, data)
         IN  IF write_internal = "__write_with_internal"
             THEN __write_with_internal(op, const_static, id_name, arr_type, tokens_data)
             ELSE __write_fn_with_internal(op, const_static, id_name, arr_type, tokens_data)

\* get_tokens, get_type and write_internal are the names of the macros to call
__write_with_impl(op, dim, const_static, id_name, t, data, get_tokens, get_type, write_internal) ==
    IF ~__assert_dim(dim, data)
    THEN PanicBeforeWrite(op, id_name, "shallow", <<>>)
    ELSE LET tokens_data == IF get_tokens = "__get_tokens_array"
                            THEN __get_tokens_array(dim, data)
                            ELSE __get_tokens_vector_fn(dim, data)
             arr_type == IF get_type = "__array_type"
                         THEN __array_type(dim, t, data)
                         ELSE __vector_type(dim, t, data)
         IN  IF write_internal = "__write_with_internal"
             THEN __write_with_internal(op, const_static, id_name, arr_type, tokens_data)
             ELSE __write_fn_with_internal(op, const_static, id_name, arr_type, tokens_data)

__write_with(op, dim, const_static, id_name, t, data, get_tokens, get_type, write_internal) ==
    __write_with_impl(op, dim + 0, const_static, id_name, t, data, get_tokens, get_type,
                      write_internal)

\* a dimension no arm of the macro matches: the build script does not compile
NoRulesExpected(op, id_name) == PanicBeforeWrite(op, id_name, "dimension", <<>>)

\* one arm too many
public_entry_for_OneMore(id_macro, id, t, dim, data) ==
    IF dim \notin 1..(NUM_DIMS + 1) THEN NoRulesExpected(id_macro, id)
    ELSE __write_with(id_macro, dim, KwStatic, id, t, data,
                      "__get_tokens_array", "__array_type", "__write_with_internal")

\* the arms ($id, $t : d, $data) for d in 1..NUM_DIMS
public_entry_for(id_macro, id, t, dim, data) ==
    IF dim \notin 1..NUM_DIMS THEN NoRulesExpected(id_macro, id)
    ELSE IF id_macro = "write_static_array"
    THEN __write_with(id_macro, dim, KwStatic, id, t, data,
                      "__get_tokens_array", "__array_type", "__write_with_internal")
    ELSE IF id_macro = "write_const_array"
    THEN __write_with(id_macro, dim, KwConst, id, t, data,
                      "__get_tokens_array", "__array_type", "__write_with_internal")
    ELSE IF id_macro = "write_array_fn"
    THEN __write_with(id_macro, dim, <<>>, id, t, data,
                      "__get_tokens_array", "__array_type", "__write_fn_with_internal")
    ELSE __write_with(id_macro, dim, <<>>, id, t, data,
                      "__get_tokens_vector_fn", "__vector_type", "__write_fn_with_internal")

\* the arm without a dimension, passing dimension 2
public_base_entry_for_Dim2(id_macro, id, t, data) == public_entry_for(id_macro, id, t, 2, data)

\* the arm ($id, $t, $data) => id_macro!($id, $t : 1, $data)
public_base_entry_for(id_macro, id, t, data) == public_entry_for(id_macro, id, t, 1, data)

write_static_array(id, t, dim, data) == public_entry_for("write_static_array", id, t, dim, data)
write_const_array(id, t, dim, data) == public_entry_for("write_const_array", id, t, dim, data)
write_array_fn(id, t, dim, data) == public_entry_for("write_array_fn", id, t, dim, data)
write_vector_fn(id, t, dim, data) == public_entry_for("write_vector_fn", id, t, dim, data)

(***************************************************************************)
(* The group, struct and struct-initializer entry points.                  *)
(***************************************************************************)
\* ids_data: a sequence of <<id_str, the tokens of data>>
\* the declarations in the opposite order of the list
__write_internal_Reversed(op, static_const, id_group, t, public, ids_data) ==
    LET element(e) == (IF public THEN <<KwPub>> ELSE <<>>)
                      \o <<static_const, e[1], PColon>> \o t \o <<PEq>> \o e[2] \o <<PSemi>>
        toks == Flatten([i \in 1..Len(ids_data) |-> element(ids_data[Len(ids_data) + 1 - i])])
    IN  __write_tokens_with_internal(op, id_group, "private", to_string(toks))

__write_internal(op, static_const, id_group, t, public, ids_data) ==
    LET element(e) == (IF public THEN <<KwPub>> ELSE <<>>)
                      \o <<static_const, e[1], PColon>> \o t \o <<PEq>> \o e[2] \o <<PSemi>>
        toks == Flatten([i \in 1..Len(ids_data) |-> element(ids_data[i])])
    IN  __write_tokens_with_internal(op, id_group, "private", to_string(toks))

__write_internal_fns(op, id_group, t, public, ids_data) ==
    LET element(e) == (IF public THEN <<KwPub>> ELSE <<>>)
                      \o <<KwFn, e[1], PLParen, PRParen, PArrow>> \o t
                      \o <<PLBrace>> \o e[2] \o <<PRBrace>>
        toks == Flatten([i \in 1..Len(ids_data) |-> element(ids_data[i])])
    IN  __write_tokens_with_internal(op, id_group, "private", to_string(toks))

write_statics(vis, id_group, t, ids_data) ==
    __write_internal("write_statics", KwStatic, id_group, t, vis = "public", ids_data)
write_consts(vis, id_group, t, ids_data) ==
    __write_internal("write_consts", KwConst, id_group, t, vis = "public", ids_data)
write_fns(vis, id_group, t, ids_data) ==
    __write_internal_fns("write_fns", id_group, t, vis = "public", ids_data)

\* syn::parse_str::<Type>: the whole string is one type
parse_str_type(type_str) ==
    LET toks == Lex(type_str) IN toks # <<>> /\ ParseType(toks, 1) = Len(toks) + 1

\* vis_ids_types: a sequence of <<public, id_str, type_str>>
__write_internal_struct(op, id_struct, public, vis_ids_types) ==
    IF \E i \in 1..Len(vis_ids_types) : ~parse_str_type(vis_ids_types[i][3])
    THEN PanicBeforeWrite(op, id_struct, "type", <<>>)
    ELSE LET element(e) == (IF e[1] THEN <<KwPub>> ELSE <<>>)
                           \o <<e[2], PColon>> \o Lex(e[3]) \o <<PComma>>
             toks == Flatten([i \in 1..Len(vis_ids_types) |-> element(vis_ids_types[i])])
             toks_struct == (IF public THEN <<KwPub>> ELSE <<>>)
                            \o <<KwStruct, id_struct, PLBrace>> \o toks \o <<PRBrace>>
         IN  __write_tokens_with_internal(op, id_struct, "private", to_string(toks_struct))

\* vis_ids: a sequence of <<public, id_str>>
__write_internal_struct_uniform(op, id_struct, t, public, vis_ids) ==
    LET element(e) == (IF e[1] THEN <<KwPub>> ELSE <<>>) \o <<e[2], PColon>> \o t
                      \o <<PComma>>
        toks == Flatten([i \in 1..Len(vis_ids) |-> element(vis_ids[i])])
        toks_struct == (IF public THEN <<KwPub>> ELSE <<>>)
                       \o <<KwStruct, id_struct, PLBrace>> \o toks \o <<PRBrace>>
    IN  __write_tokens_with_internal(op, id_struct, "private", to_string(toks_struct))

\* ids_exps: a sequence of <<id_str, the tokens of exp>>
__write_internal_struct_uniform_init(op, id_struct, id_exps, t, ids_exps) ==
    LET toks == Flatten([i \in 1..Len(ids_exps) |->
                            <<ids_exps[i][1], PColon>> \o ids_exps[i][2] \o <<PComma>>])
        id == id_struct \o Underscore \o id_exps
        toks_init == <<id_struct, PLBrace>> \o toks \o <<PRBrace>>
    IN  __write_tokens_with_internal_raw(op, id, to_string(toks_init))

write_struct(vis, id_struct, vis_ids_types) ==
    __write_internal_struct("write_struct", id_struct, vis = "public", vis_ids_types)
write_struct_uniform(vis, id_struct, t, vis_ids) ==
    __write_internal_struct_uniform("write_struct_uniform", id_struct, t, vis = "public",
                                    vis_ids)
write_struct_uniform_init(id_struct, id_vals, t, ids_vals) ==
    __write_internal_struct_uniform_init("write_struct_uniform_init", id_struct, id_vals,
                                         t, ids_vals)

(***************************************************************************)
(* The inputs the build script passes.                                     *)
(***************************************************************************)
IdA == <<"A">>
IdB == <<"B">>
IdAB == <<"A", "_", "B">>
IdX == <<"x">>
IdY == <<"y">>
Ids == {IdA, IdB, IdAB}
DefaultPkg == <<"a">>

\* $t: a type, which the macro matcher has already parsed
TypeT == <<(<<"T">>)>>
\* data.to_tok_stream(): two values that serialize to a literal, and one whose
\* ToTokenStream implementation emits nothing
Lit1 == <<(<<"1">>)>>
Lit2 == <<(<<"2">>)>>
BadToks == <<>>
DataToks == {Lit1, Lit2, BadToks}

StaticInputs == ({IdA} \X DataToks) \cup {<<IdAB, Lit1>>}
ConstInputs == {IdB} \X {Lit2, BadToks}
FnInputs == {IdB} \X {Lit1, BadToks}
\* <<id, dimension, sample>>
StaticArrayInputs == {<<IdA, 1, <<Lit1, Lit2>> >>, <<IdA, 2, <<>> >>}
ConstArrayInputs == {<<IdB, 2, << <<Lit1>>, <<Lit2>> >> >>}
ArrayFnInputs == {<<IdB, 1, <<BadToks>> >>}
VectorFnInputs == {<<IdA, 2, << <<Lit1, Lit2>> >> >>, <<IdA, 1, <<>> >>}
\* <<visibility, group, the (identifier, value) pairs>>
StaticsInputs == {"private", "public"} \X {IdA} \X { << <<IdX, Lit1>>, <<IdY, Lit2>> >> }
ConstsInputs == {<<"private", IdB, << <<IdX, BadToks>> >> >>}
FnsInputs == {<<"public", IdB, << <<IdX, Lit1>> >> >>}
\* <<visibility, struct, the (public, field, type string) triples>>
StructInputs ==
    {<<"public", IdA, << <<TRUE, IdX, <<(<<"T">>)>> >>, <<FALSE, IdY, <<IdVec, PLt, <<"T">>, PGt>> >> >> >>,
     <<"private", IdA, << <<TRUE, IdX, <<PLt>> >> >> >>}
StructUniformInputs == {<<"private", IdB, << <<TRUE, IdX>>, <<FALSE, IdY>> >> >>}
\* <<struct, alias, the (field, value) pairs>>
StructInitInputs ==
    {<<IdA, IdB, << <<IdX, Lit1>>, <<IdY, Lit2>> >> >>, <<IdA, IdB, << <<IdX, BadToks>> >> >>}

(***************************************************************************)
(* The state machine.  A build script runs (status "running"), calling the *)
(* macros one after the other, until its main returns ("done") or a macro  *)
(* panics ("panicked"); when it is done the main crate is compiled, and    *)
(* its use_symbols!, export_symbols! and init_symbols! include the files.  *)
(* OUT_DIR keeps its files from one run of the build script to the next.   *)
(***************************************************************************)
Init ==
    /\ fs = {}
    /\ pkg = DefaultPkg
    /\ status = "running"
    /\ diag = NoDiag
    /\ last = NoCall
    /\ wrote = {}
    /\ included = NoInclude
    /\ steps = 0
    /\ script = <<>>
    /\ pos = 1
    /\ mode = "first"
    /\ snap = NoSnap
    /\ edits = 0
    /\ builder = NoBuilder

\* a panic that does not end the run
Apply_GoOn(o) ==
    /\ fs' = o.fs
    /\ diag' = o.diag
    /\ status' = "running"
    /\ last' = o.last
    /\ wrote' = wrote \cup o.wrote

\* what a macro invocation o does to the state: a panic ends the run
Apply(o) ==
    /\ fs' = o.fs
    /\ diag' = o.diag
    /\ status' = IF o.diag = NoDiag THEN "running" ELSE "panicked"
    /\ last' = o.last
    /\ wrote' = wrote \cup o.wrote

\* one macro invocation of the build script
Call(o) ==
    /\ status = "running"
    /\ steps < MaxSteps
    /\ steps' = steps + 1
    /\ Apply(o)
    /\ UNCHANGED <<pkg, included, rerunVars>>

CallWriteStatic == \E i \in StaticInputs : Call(write_static(i[1], TypeT, i[2]))
CallWriteConst == \E i \in ConstInputs : Call(write_const(i[1], TypeT, i[2]))
CallWriteFn == \E i \in FnInputs : Call(write_fn(i[1], TypeT, i[2]))
CallWriteStaticArray ==
    \E i \in StaticArrayInputs : Call(write_static_array(i[1], TypeT, i[2], i[3]))
CallWriteConstArray ==
    \E i \in ConstArrayInputs : Call(write_const_array(i[1], TypeT, i[2], i[3]))
CallWriteArrayFn == \E i \in ArrayFnInputs : Call(write_array_fn(i[1], TypeT, i[2], i[3]))
CallWriteVectorFn ==
    \E i \in VectorFnInputs : Call(write_vector_fn(i[1], TypeT, i[2], i[3]))
CallWriteStatics == \E i \in StaticsInputs : Call(write_statics(i[1], i[2], TypeT, i[3]))
CallWriteConsts == \E i \in ConstsInputs : Call(write_consts(i[1], i[2], TypeT, i[3]))
CallWriteFns == \E i \in FnsInputs : Call(write_fns(i[1], i[2], TypeT, i[3]))
CallWriteStruct == \E i \in StructInputs : Call(write_struct(i[1], i[2], i[3]))
CallWriteStructUniform ==
    \E i \in StructUniformInputs : Call(write_struct_uniform(i[1], i[2], TypeT, i[3]))
CallWriteStructUniformInit ==
    \E i \in StructInitInputs : Call(write_struct_uniform_init(i[1], i[2], TypeT, i[3]))
CallAllowExport == \E id \in Ids : Call(allow_export(id))

\* main returns
Finish ==
    /\ status = "running"
    /\ status' = "done"
    /\ UNCHANGED <<fs, pkg, diag, last, wrote, included, steps, rerunVars>>

\* cargo runs the build script again
StartRun ==
    /\ status \in {"done", "panicked"}
    /\ status' = "running"
    /\ diag' = NoDiag
    /\ last' = NoCall
    /\ included' = NoInclude
    /\ UNCHANGED <<fs, pkg, wrote, steps, rerunVars>>

\* include!(path) in the main crate: the file's text, found FALSE when there is no file
Include(kind, id, path) ==
    /\ status = "done"
    /\ included' = [kind |-> kind, id |-> id, path |-> path, found |-> FsExists(fs, path),
                    text |-> IF FsExists(fs, path) THEN FsRead(fs, path) ELSE <<>>]
    /\ UNCHANGED <<fs, pkg, status, diag, last, wrote, steps, rerunVars>>

use_symbols == \E id \in Ids : Include("use", id, use_symbols_path(OutDir, pkg, id))
export_symbols == \E id \in Ids : Include("export", id, export_symbols_path(OutDir, pkg, id))
init_symbols ==
    \E s \in {IdA}, v \in {IdB} :
        Include("init", s \o Underscore \o v, init_symbols_path(OutDir, pkg, s, v))

Next ==
    \/ CallWriteStatic
    \/ CallWriteConst
    \/ CallWriteFn
    \/ CallWriteStaticArray
    \/ CallWriteConstArray
    \/ CallWriteArrayFn
    \/ CallWriteVectorFn
    \/ CallWriteStatics
    \/ CallWriteConsts
    \/ CallWriteFns
    \/ CallWriteStruct
    \/ CallWriteStructUniform
    \/ CallWriteStructUniformInit
    \/ CallAllowExport
    \/ Finish
    \/ StartRun
    \/ use_symbols
    \/ export_symbols
    \/ init_symbols

Spec == Init /\ [][Next]_vars

(***************************************************************************)
(* The same build script run twice.  The calls of its first run are        *)
(* recorded, and the second run makes the same calls with the same         *)
(* arguments.  Between builds the script may be edited (another script     *)
(* then runs for the first time); OUT_DIR keeps its files throughout.      *)
(* Here wrote holds the writes of the current run.                         *)
(***************************************************************************)
ScriptCalls ==
    [op : {"write_static"}, id : {IdA, IdB}, data : {Lit1, Lit2}]
    \cup [op : {"write_static"}, id : {IdA}, data : {BadToks}]
    \cup [op : {"allow_export"}, id : {IdA, IdB}, data : {<<>>}]

Exec(c) ==
    IF c.op = "write_static" THEN write_static(c.id, TypeT, c.data) ELSE allow_export(c.id)

FirstRunCall ==
    \E c \in ScriptCalls :
        /\ mode = "first" /\ status = "running"
        /\ Len(script) < MaxScript
        /\ Apply(Exec(c))
        /\ script' = Append(script, c)
        /\ UNCHANGED <<pkg, included, steps, pos, mode, snap, edits, builder>>

AgainCall ==
    /\ mode = "again" /\ status = "running"
    /\ pos <= Len(script)
    /\ Apply(Exec(script[pos]))
    /\ pos' = pos + 1
    /\ UNCHANGED <<pkg, included, steps, script, mode, snap, edits, builder>>

\* main returns: in the second run, after the calls the first run made
RunFinish ==
    /\ status = "running"
    /\ mode = "again" => (pos > Len(script) /\ snap.status = "done")
    /\ status' = "done"
    /\ UNCHANGED <<fs, pkg, diag, last, wrote, included, steps, rerunVars>>

\* cargo runs the same build script again
RunAgain ==
    /\ mode = "first" /\ status \in {"done", "panicked"}
    /\ mode' = "again"
    /\ snap' = [fs |-> fs, status |-> status, wrote |-> wrote]
    /\ pos' = 1
    /\ status' = "running" /\ diag' = NoDiag /\ last' = NoCall /\ wrote' = {}
    /\ UNCHANGED <<fs, pkg, included, steps, script, edits, builder>>

\* the build script is edited, and cargo runs the new one
EditScript ==
    /\ status \in {"done", "panicked"}
    /\ edits < MaxEdits
    /\ edits' = edits + 1
    /\ mode' = "first" /\ script' = <<>> /\ pos' = 1 /\ snap' = NoSnap
    /\ status' = "running" /\ diag' = NoDiag /\ last' = NoCall /\ wrote' = {}
    /\ UNCHANGED <<fs, pkg, included, steps, builder>>

NextRerun ==
    \/ FirstRunCall
    \/ AgainCall
    \/ RunFinish
    \/ RunAgain
    \/ EditScript

SpecRerun == Init /\ [][NextRerun]_vars

(***************************************************************************)
(* Several compilation units beneath one OUT_DIR.  The build scripts of    *)
(* the units run interleaved: the unit that runs changes between calls.    *)
(* A unit writes a static and exports it, under names drawn from the       *)
(* identifiers over NameChars.                                             *)
(***************************************************************************)
NameChars == {"a", "_"}

RECURSIVE StrsOfLen(_)
StrsOfLen(k) ==
    IF k = 0 THEN {<<>>} ELSE {Append(str, c) : str \in StrsOfLen(k - 1), c \in NameChars}

\* package names and identifiers: they start with a letter
Names == {str \in UNION {StrsOfLen(k) : k \in 1..(MaxNameChars - 1)} : str[1] = "a"}

SwitchUnit ==
    \E p \in Names :
        /\ pkg' = p
        /\ status' = "running" /\ diag' = NoDiag /\ last' = NoCall
        /\ UNCHANGED <<fs, wrote, included, steps, rerunVars>>

UnitCall(id, o) ==
    /\ status = "running"
    /\ Len(pkg) + Len(id) <= MaxNameChars
    /\ Cardinality(wrote \cup o.wrote) <= 2
    /\ Apply(o)
    /\ UNCHANGED <<pkg, included, steps, rerunVars>>

UnitWrite == \E id \in Names : UnitCall(id, write_static(id, TypeT, Lit1))
UnitExport == \E id \in Names : UnitCall(id, allow_export(id))

NextPath ==
    \/ SwitchUnit
    \/ UnitWrite
    \/ UnitExport

SpecPath == Init /\ [][NextPath]_vars

(***************************************************************************)
(* The array and vector entry points on samples of every shape.  A sample  *)
(* of nesting d is rectangular (every container at a level has the length  *)
(* of the level) or has one container, anywhere in it, emptied; its leaves *)
(* differ with their index path.  A build script makes one call, held in   *)
(* script, in an empty OUT_DIR.                                            *)
(***************************************************************************)
RECURSIVE SumSeq(_)
SumSeq(q) == IF q = <<>> THEN 0 ELSE Head(q) + SumSeq(Tail(q))

LeafAt(path) == IF SumSeq(path) % 2 = 0 THEN Lit1 ELSE Lit2

RECURSIVE Rect(_, _)
Rect(shape, path) ==
    IF shape = <<>> THEN LeafAt(path)
    ELSE [i \in 1..Head(shape) |-> Rect(Tail(shape), Append(path, i))]

\* the index paths of the containers of a sample of nesting d
RECURSIVE ContainerPaths(_, _)
ContainerPaths(sample, d) ==
    IF d = 1 THEN {<<>>}
    ELSE {<<>>} \cup UNION {{<<i>> \o q : q \in ContainerPaths(sample[i], d - 1)} :
                               i \in 1..Len(sample)}

RECURSIVE Emptied(_, _)
Emptied(sample, q) ==
    IF q = <<>> THEN <<>> ELSE [sample EXCEPT ![Head(q)] = Emptied(sample[Head(q)], Tail(q))]

RectSamples(d) == {Rect(shape, <<>>) : shape \in [1..d -> 0..MaxLen]}
WithEmptied(rects, d) ==
    rects \cup UNION {{Emptied(r, q) : q \in ContainerPaths(r, d)} : r \in rects}

\* one element nested d deep
RECURSIVE Deep(_)
Deep(d) == IF d = 0 THEN Lit1 ELSE <<Deep(d - 1)>>

SamplesOf(d) ==
    IF d \in 1..MaxNest
    THEN WithEmptied(RectSamples(d), d) \cup (IF d = 1 THEN {<<BadToks>>} ELSE {})
    ELSE {Deep(d)}

ArrayMacros == {"write_static_array", "write_const_array", "write_array_fn", "write_vector_fn"}
ArrayDims == 0..(NUM_DIMS + 1)

ArrayCall(m, explicit, d, sample, o) ==
    /\ status = "running" /\ script = <<>>
    /\ Apply(o)
    /\ script' = <<[op |-> m, id |-> IdA, explicit |-> explicit, dim |-> d, data |-> sample]>>
    /\ UNCHANGED <<pkg, included, steps, pos, mode, snap, edits, builder>>

\* id_macro!(A, T : d, sample)
CallWithDim ==
    \E m \in ArrayMacros, d \in ArrayDims :
        \E sample \in SamplesOf(d) :
            ArrayCall(m, TRUE, d, sample, public_entry_for(m, IdA, TypeT, d, sample))

\* id_macro!(A, T, sample)
CallWithoutDim ==
    \E m \in ArrayMacros, sample \in SamplesOf(1) :
        ArrayCall(m, FALSE, 1, sample, public_base_entry_for(m, IdA, TypeT, sample))

\* cargo clean, and another build script is built
CleanBuild ==
    /\ script # <<>>
    /\ fs' = {} /\ wrote' = {} /\ script' = <<>>
    /\ status' = "running" /\ diag' = NoDiag /\ last' = NoCall /\ included' = NoInclude
    /\ builder' = NoBuilder
    /\ UNCHANGED <<pkg, steps, pos, mode, snap, edits>>

NextArray ==
    \/ CallWithDim
    \/ CallWithoutDim
    \/ CleanBuild

SpecArray == Init /\ [][NextArray]_vars

(***************************************************************************)
(* ToTokenStream (tokens.rs).  A value is a record: kind is its type, num  *)
(* the number of an integer or a bool and, of a float, twice its value     *)
(* (so the floats are the halves), cls tells a finite float from NaN and   *)
(* the infinities, chars are the characters of a char or a text, items the *)
(* elements of a tuple, an array, a slice, a Vec, an Option or a           *)
(* reference.  to_toks gives [ok, toks]: ok is FALSE when it panics.       *)
(***************************************************************************)
SignedTypes == {"i8", "i16", "i32", "i64", "i128", "isize"}
UnsignedTypes == {"u8", "u16", "u32", "u64", "u128", "usize"}
FloatTypes == {"f32", "f64"}

Value(kind, num, cls, chars, items) ==
    [kind |-> kind, num |-> num, cls |-> cls, chars |-> chars, items |-> items]
IntV(ty, n) == Value(ty, n, "", <<>>, <<>>)
FloatV(ty, halves) == Value(ty, halves, "finite", <<>>, <<>>)
NonFiniteV(ty, cls) == Value(ty, 0, cls, <<>>, <<>>)
BoolV(b) == Value("bool", IF b THEN 1 ELSE 0, "", <<>>, <<>>)
CharV(c) == Value("char", 0, "", <<c>>, <<>>)
StrV(cs) == Value("str", 0, "", cs, <<>>)
StringV(cs) == Value("String", 0, "", cs, <<>>)
ItemsV(kind, items) == Value(kind, 0, "", <<>>, items)

\* the characters of a type's name, the suffix of its literals
TypeChars(ty) ==
    CASE ty = "i8" -> <<"i", "8">> [] ty = "i16" -> <<"i", "1", "6">>
      [] ty = "i32" -> <<"i", "3", "2">> [] ty = "i64" -> <<"i", "6", "4">>
      [] ty = "i128" -> <<"i", "1", "2", "8">> [] ty = "isize" -> <<"i", "s", "i", "z", "e">>
      [] ty = "u8" -> <<"u", "8">> [] ty = "u16" -> <<"u", "1", "6">>
      [] ty = "u32" -> <<"u", "3", "2">> [] ty = "u64" -> <<"u", "6", "4">>
      [] ty = "u128" -> <<"u", "1", "2", "8">> [] ty = "usize" -> <<"u", "s", "i", "z", "e">>
      [] ty = "f32" -> <<"f", "3", "2">> [] OTHER -> <<"f", "6", "4">>

\* Display of a natural number
RECURSIVE Decimal(_)
Decimal(n) == IF n < 10 THEN <<DigitChar(n)>> ELSE Decimal(n \div 10) \o <<DigitChar(n % 10)>>

Abs(n) == IF n < 0 THEN -n ELSE n

\* a negative literal is pushed as the punctuation - and the positive literal
Signed(n, lexeme) == IF n < 0 THEN <<PMinus, lexeme>> ELSE <<lexeme>>

\* Literal::i8_suffixed ... Literal::usize_suffixed
IntegerSuffixed(ty, n) == Signed(n, Decimal(Abs(n)) \o TypeChars(ty))

\* Display of a float that is a number of halves: 1, 1.5
FloatDisplay(halves) ==
    Decimal(Abs(halves) \div 2) \o (IF Abs(halves) % 2 = 1 THEN <<".", "5">> ELSE <<>>)

\* Literal::f32_suffixed, Literal::f64_suffixed: assert!(f.is_finite())
FloatSuffixed(ty, halves) == Signed(halves, FloatDisplay(halves) \o TypeChars(ty))

\* the escapes of a character literal and of a string literal
EscapeIn(c, quote) ==
    IF c = "\\" THEN <<"\\", "\\">>
    ELSE IF c = "\n" THEN <<"\\", "n">>
    ELSE IF c = quote THEN <<"\\", c>>
    ELSE <<c>>

\* Literal::character, Literal::string
Quoted(cs, quote) ==
    <<(<<quote>> \o Flatten([i \in 1..Len(cs) |-> EscapeIn(cs[i], quote)]) \o <<quote>>)>>

Ok(toks) == [ok |-> TRUE, toks |-> toks]
Panicked == [ok |-> FALSE, toks |-> <<>>]
AllOk(rs) == \A i \in 1..Len(rs) : rs[i].ok

\* for a in sl.iter() { quote! { #a_toks, } } in the order of the slice
ElementsWithCommas(rs) == Flatten([i \in 1..Len(rs) |-> rs[i].toks \o <<PComma>>])

\* quote! { [#arr_toks] }
to_toks_slice(rs) ==
    IF AllOk(rs) THEN Ok(<<PLBrack>> \o ElementsWithCommas(rs) \o <<PRBrack>>) ELSE Panicked

\* quote! { vec![#arr_toks] }
VecToToks(rs) ==
    IF AllOk(rs)
    THEN Ok(<<IdVecMacro, PBang, PLBrack>> \o ElementsWithCommas(rs) \o <<PRBrack>>)
    ELSE Panicked

\* Some(a) written as a alone
OptionToToks_Unwrapped(rs) ==
    IF rs = <<>> THEN Ok(<<IdNone>>)
    ELSE IF rs[1].ok THEN Ok(rs[1].toks)
    ELSE Panicked

\* quote! { Some(#a_toks) } or quote! { None }
OptionToToks(rs) ==
    IF rs = <<>> THEN Ok(<<IdNone>>)
    ELSE IF rs[1].ok THEN Ok(<<IdSome, PLParen>> \o rs[1].toks \o <<PRParen>>)
    ELSE Panicked

\* the slots in the opposite order
build_tuple_trait_Reversed(rs) ==
    IF AllOk(rs)
    THEN Ok(<<PLParen>>
            \o Flatten([i \in 1..Len(rs) |->
                           rs[Len(rs) + 1 - i].toks \o (IF i < Len(rs) THEN <<PComma>> ELSE <<>>)])
            \o <<PRParen>>)
    ELSE Panicked

\* quote! { ($(#$id),+) }
build_tuple_trait(rs) ==
    IF AllOk(rs)
    THEN Ok(<<PLParen>>
            \o Flatten([i \in 1..Len(rs) |->
                           rs[i].toks \o (IF i < Len(rs) THEN <<PComma>> ELSE <<>>)])
            \o <<PRParen>>)
    ELSE Panicked

\* primitive!: tokens.append(Literal::$name(*self)); String: quote! { #self }
primitive(v) ==
    IF v.kind \in SignedTypes \cup UnsignedTypes THEN Ok(IntegerSuffixed(v.kind, v.num))
    ELSE IF v.kind \in FloatTypes
    THEN (IF v.cls = "finite" THEN Ok(FloatSuffixed(v.kind, v.num)) ELSE Panicked)
    ELSE IF v.kind = "char" THEN Ok(Quoted(v.chars, "'"))
    ELSE Ok(Quoted(v.chars, "\""))

\* bool: Ident::new(&self.to_string(), ..)
BoolToToks(v) == Ok(<<(IF v.num = 1 THEN IdTrue ELSE IdFalse)>>)

RECURSIVE to_toks(_)
ItemsToToks(v) == [i \in 1..Len(v.items) |-> to_toks(v.items[i])]
to_toks(v) ==
    IF v.kind = "bool" THEN BoolToToks(v)
    ELSE IF v.kind = "ref" THEN to_toks(v.items[1])
    ELSE IF v.kind \in {"array", "slice"} THEN to_toks_slice(ItemsToToks(v))
    ELSE IF v.kind = "vec" THEN VecToToks(ItemsToToks(v))
    ELSE IF v.kind = "option" THEN OptionToToks(ItemsToToks(v))
    ELSE IF v.kind = "tuple" THEN build_tuple_trait(ItemsToToks(v))
    ELSE primitive(v)

to_tok_stream(v) == to_toks(v)

(***************************************************************************)
(* A build script that writes one value: data.to_tok_stream() and the      *)
(* write, then the main crate imports the symbol.                          *)
(***************************************************************************)
IntValues ==
    {IntV(ty, n) : ty \in SignedTypes, n \in {-1, 0, 42}}
    \cup {IntV(ty, n) : ty \in UnsignedTypes, n \in {0, 42}}
    \cup {IntV("i8", -128), IntV("i8", 127), IntV("u8", 255)}
FloatValues ==
    {FloatV(ty, h) : ty \in FloatTypes, h \in {-3, 0, 2, 3}}
    \cup {NonFiniteV(ty, cls) : ty \in FloatTypes, cls \in {"nan", "inf", "neginf"}}
TextValues ==
    {CharV(c) : c \in {"a", "'", "\"", "\\", "\n"}}
    \cup {StrV(cs) : cs \in {<<>>, <<"a", "b">>, <<"a", " ", "\"">>, <<"\\", "'">>}}
    \cup {StringV(<<"a", "b">>)}
ScalarValues == IntValues \cup FloatValues \cup TextValues \cup {BoolV(TRUE), BoolV(FALSE)}

\* the elements of the containers
FewValues == {IntV("u8", 0), IntV("i32", -1), StrV(<<"a", "b">>)}

RECURSIVE SeqsUpTo(_, _)
SeqsUpTo(S, n) ==
    IF n = 0 THEN {<<>>}
    ELSE SeqsUpTo(S, n - 1) \cup {Append(q, x) : q \in {r \in SeqsUpTo(S, n - 1) : Len(r) = n - 1}, x \in S}

TupleValues ==
    {ItemsV("tuple", [i \in 1..n |-> IntV("i32", i)]) : n \in 2..MaxTupleArity}
    \cup {ItemsV("tuple", <<x, y>>) : x, y \in FewValues \cup {BoolV(TRUE), NonFiniteV("f32", "nan")}}
SequenceValues ==
    {ItemsV(k, q) : k \in {"array", "slice", "vec"}, q \in SeqsUpTo(FewValues, MaxLen)}
OptionValues ==
    {ItemsV("option", <<>>)}
    \cup {ItemsV("option", <<x>>) : x \in FewValues \cup {IntV("i32", 42), NonFiniteV("f64", "inf")}}
NestedValues ==
    {ItemsV("vec", <<t, u>>) : t, u \in {ItemsV("tuple", <<x, y>>) : x, y \in {IntV("u8", 0), BoolV(TRUE)}}}
    \cup {ItemsV("tuple", <<o, q>>) : o \in {ItemsV("option", <<>>), ItemsV("option", <<IntV("u8", 0)>>)},
                                      q \in {ItemsV("vec", <<>>), ItemsV("array", <<BoolV(FALSE), BoolV(TRUE)>>)}}
    \cup {ItemsV("ref", <<x>>) : x \in {IntV("i64", 42), ItemsV("option", <<StrV(<<"a", "b">>)>>)}}
Values == ScalarValues \cup TupleValues \cup SequenceValues \cup OptionValues \cup NestedValues

IdOption == <<"O", "p", "t", "i", "o", "n">>

\* the type the caller declares
DeclaredType(v) ==
    IF v.kind \in SignedTypes \cup UnsignedTypes \cup FloatTypes THEN <<TypeChars(v.kind)>>
    ELSE IF v.kind = "option" /\ v.items # <<>>
            /\ v.items[1].kind \in SignedTypes \cup UnsignedTypes \cup FloatTypes
    THEN <<IdOption, PLt, TypeChars(v.items[1].kind), PGt>>
    ELSE TypeT

\* let data = $data; ... data.to_tok_stream(): r is what to_tok_stream gives
WriteSerialized(op, id, t, r) ==
    IF ~r.ok THEN PanicBeforeWrite(op, id, "serialize", <<>>)
    ELSE IF op = "write_static" THEN write_static(id, t, r.toks)
    ELSE IF op = "write_const" THEN write_const(id, t, r.toks)
    ELSE write_fn(id, t, r.toks)

WriteValue ==
    \E m \in {"write_static", "write_const", "write_fn"}, v \in Values :
        /\ status = "running" /\ script = <<>>
        /\ Apply(WriteSerialized(m, IdA, DeclaredType(v), to_tok_stream(v)))
        /\ script' = <<[op |-> m, id |-> IdA, value |-> v]>>
        /\ UNCHANGED <<pkg, included, steps, pos, mode, snap, edits, builder>>

NextSer ==
    \/ WriteValue
    \/ Finish
    \/ use_symbols
    \/ CleanBuild

SpecSer == Init /\ [][NextSer]_vars

(***************************************************************************)
(* The map builder.  MapBuilder wraps phf_codegen::Map, which keeps the    *)
(* keys and the text of each value; build() finds a seed and displacements *)
(* that send the keys to distinct slots and displays the table; Map wraps  *)
(* phf::Map, whose lookup hashes the key, takes the slot the displacements *)
(* give and compares the key found there.  The hash is a small arithmetic  *)
(* mix standing for SipHash: distinct keys may fall on the same slot.      *)
(***************************************************************************)
IdRustifact == <<"r", "u", "s", "t", "i", "f", "a", "c", "t">>
IdInternal == <<"i", "n", "t", "e", "r", "n", "a", "l">>
IdPhf == <<"p", "h", "f">>
IdMap == <<"M", "a", "p">>
IdInitRaw == <<"i", "n", "i", "t", "_", "r", "a", "w">>
IdKey == <<"k", "e", "y">>
IdDisps == <<"d", "i", "s", "p", "s">>
IdEntries == <<"e", "n", "t", "r", "i", "e", "s">>

MapKeys == {<<"a">>, <<"b">>, <<"c">>}
MapValues == {IntV("i32", 1), IntV("i32", 2), IntV("i32", -1)}

CharCode(c) == CASE c = "a" -> 1 [] c = "b" -> 2 [] c = "c" -> 3 [] OTHER -> 4
RECURSIVE KeyCode(_)
KeyCode(cs) ==
    IF cs = <<>> THEN 0 ELSE 5 * KeyCode(SubSeq(cs, 1, Len(cs) - 1)) + CharCode(cs[Len(cs)])

\* phf_shared::hash(key, seed): the three parts of the hash; with the keys and seeds
\* of this model they and their displacement stay far below 2^32, where the u32
\* arithmetic of displace would wrap
hash(key, seed) ==
    [g |-> KeyCode(key) * 7 + seed,
     f1 |-> ((KeyCode(key) + seed) * (KeyCode(key) + seed)) \div 3,
     f2 |-> ((4 * KeyCode(key) + seed) * (KeyCode(key) + 2 * seed + 1)) \div 2]

\* phf_shared::displace, phf_shared::get_index
displace(f1, f2, d1, d2) == d2 + f1 * d1 + f2
get_index(h, disps, len) ==
    displace(h.f1, h.f2, disps[(h.g % Len(disps)) + 1][1], disps[(h.g % Len(disps)) + 1][2]) % len

\* MapBuilder::entry: the key, and the text of the value's tokens; r is
\* value.to_tok_stream()
MapBuilder_entry(b, key, r) ==
    [b EXCEPT !.keys = Append(b.keys, key), !.values = Append(b.values, to_string(r.toks))]

\* phf_codegen::Map::build panics on a key given twice
HasDuplicate(keys) == \E i, j \in 1..Len(keys) : i < j /\ keys[i] = keys[j]

\* phf_generator::try_generate_hash, for the one bucket of up to five keys: the first
\* displacement (d1, d2) that sends the keys to distinct slots
SlotOf(key, seed, d, n) == displace(hash(key, seed).f1, hash(key, seed).f2, d[1], d[2]) % n
Places(keys, seed, d) ==
    Cardinality({SlotOf(keys[i], seed, d, Len(keys)) : i \in 1..Len(keys)}) = Len(keys)
Displacements(keys, seed) ==
    {d \in (0..(Len(keys) - 1)) \X (0..(Len(keys) - 1)) : Places(keys, seed, d)}
FirstDisplacement(ds, n) ==
    CHOOSE d \in ds : \A e \in ds : d[1] * n + d[2] <= e[1] * n + e[2]
try_generate_hash(keys, seed) ==
    IF keys = <<>> THEN [key |-> seed, disps |-> <<>>, map |-> <<>>]
    ELSE [key |-> seed,
          disps |-> <<FirstDisplacement(Displacements(keys, seed), Len(keys))>>,
          map |-> [slot \in 1..Len(keys) |->
                     CHOOSE i \in 1..Len(keys) :
                        SlotOf(keys[i], seed,
                               FirstDisplacement(Displacements(keys, seed), Len(keys)),
                               Len(keys)) = slot - 1]]

\* phf_generator::generate_hash: the first seed that has a solution
Solvable(keys, seed) == keys = <<>> \/ Displacements(keys, seed) # {}
Solved(keys) == \E seed \in 0..MaxSeed : Solvable(keys, seed)
generate_hash(keys) ==
    try_generate_hash(keys, CHOOSE seed \in 0..MaxSeed :
                                /\ Solvable(keys, seed)
                                /\ \A t \in 0..(seed - 1) : ~Solvable(keys, t))

\* Display of phf_codegen::DisplayMap: the table as text, the entries in slot order
TextOf(toks) == to_string(toks) \o <<Sp>>
DisplayMap(b, state) ==
    TextOf(<<IdRustifact, PPath, IdInternal, PPath, IdPhf, PPath, IdMap, PLBrace,
             IdKey, PColon, Decimal(state.key), PComma, IdDisps, PColon, PAmp, PLBrack>>)
    \o Flatten([i \in 1..Len(state.disps) |->
                  TextOf(<<PLParen, Decimal(state.disps[i][1]), PComma,
                           Decimal(state.disps[i][2]), PRParen, PComma>>)])
    \o TextOf(<<PRBrack, PComma, IdEntries, PColon, PAmp, PLBrack>>)
    \o Flatten([slot \in 1..Len(state.map) |->
                  TextOf(<<PLParen>> \o Quoted(b.keys[state.map[slot]], "\"") \o <<PComma>>)
                  \o b.values[state.map[slot]] \o <<Sp>>
                  \o TextOf(<<PRParen, PComma>>)])
    \o to_string(<<PRBrack, PComma, PRBrace>>)

\* if let Ok(t) = parse_str::<syn::Expr>(..) { quote! { rustifact::Map::init_raw(#t) } }
\* else panic!
WrapWhenParsed(toks) ==
    IF toks # <<>> /\ ParseExpr(toks, 1) = Len(toks) + 1
    THEN Ok(<<IdRustifact, PPath, IdMap, PPath, IdInitRaw, PLParen>> \o toks \o <<PRParen>>)
    ELSE Panicked

\* impl ToTokenStream for MapBuilder
MapBuilderToToks(b) ==
    IF HasDuplicate(b.keys) \/ ~Solved(b.keys) THEN Panicked
    ELSE WrapWhenParsed(Lex(DisplayMap(b, generate_hash(b.keys))))

\* map.entry(key, value) in the build script
EntryOutcome(key, r) ==
    IF r.ok THEN [fs |-> fs, diag |-> NoDiag, last |-> last, wrote |-> {}]
    ELSE PanicBeforeWrite("entry", <<>>, "serialize", <<>>)
MapEntry ==
    \E key \in MapKeys, v \in MapValues :
        /\ status = "running" /\ last.op = "none" /\ Len(builder.keys) < MaxEntries
        /\ Apply(EntryOutcome(key, to_tok_stream(v)))
        /\ builder' = MapBuilder_entry(builder, key, to_tok_stream(v))
        /\ script' = Append(script, [op |-> "entry", key |-> key, value |-> v])
        /\ UNCHANGED <<pkg, included, steps, pos, mode, snap, edits>>

\* write_static!(A, Map<..>, &map), write_const!(A, Map<..>, &map)
MapWrite ==
    \E m \in {"write_static", "write_const"} :
        /\ status = "running" /\ last.op = "none"
        /\ Apply(WriteSerialized(m, IdA, TypeT, MapBuilderToToks(builder)))
        /\ UNCHANGED <<pkg, included, steps, rerunVars>>

\* the next build, from a clean OUT_DIR
MapCleanBuild ==
    /\ last.op # "none"
    /\ fs' = {} /\ wrote' = {} /\ script' = <<>>
    /\ status' = "running" /\ diag' = NoDiag /\ last' = NoCall /\ included' = NoInclude
    /\ builder' = NoBuilder
    /\ UNCHANGED <<pkg, steps, pos, mode, snap, edits>>

NextMap ==
    \/ MapEntry
    \/ MapWrite
    \/ Finish
    \/ use_symbols
    \/ MapCleanBuild

SpecMap == Init /\ [][NextMap]_vars

(***************************************************************************)
(* The four builders.  SetBuilder, OrderedMapBuilder and OrderedSetBuilder *)
(* wrap phf_codegen::Set, OrderedMap and OrderedSet as MapBuilder wraps    *)
(* Map.  A set is a map whose values are (); an ordered map keeps the      *)
(* entries in the order of the entry calls and a table idxs from slot to   *)
(* entry.  to_toks takes &self: the build script keeps the builder, and    *)
(* can add entries and write it again.                                     *)
(***************************************************************************)
IdSet == <<"S", "e", "t">>
IdOrderedMap == <<"O", "r", "d", "e", "r", "e", "d", "M", "a", "p">>
IdOrderedSet == <<"O", "r", "d", "e", "r", "e", "d", "S", "e", "t">>
IdMapField == <<"m", "a", "p">>
IdIdxs == <<"i", "d", "x", "s">>

BuilderKinds == {"Map", "Set", "OrderedMap", "OrderedSet"}
SetKinds == {"Set", "OrderedSet"}
OrderedKinds == {"OrderedMap", "OrderedSet"}
UnitV == ItemsV("tuple", <<>>)
BuilderValues == {IntV("i32", 1), IntV("i32", 2)}

\* MapBuilder::new, SetBuilder::new, OrderedMapBuilder::new, OrderedSetBuilder::new
BuilderNew(kind) == [kind |-> kind, keys |-> <<>>, values |-> <<>>]

\* the type's name in the generated text
KindIdent(kind) ==
    CASE kind = "Map" -> IdMap [] kind = "Set" -> IdSet
      [] kind = "OrderedMap" -> IdOrderedMap [] OTHER -> IdOrderedSet

\* phf_codegen::Set::entry, OrderedSet::entry: self.map.entry(value, "()")
UnitToks == Ok(<<PLParen, PRParen>>)

\* an entry call that drops a key the builder already has
Builder_entry_Dedup(b, key, r) ==
    IF \E i \in 1..Len(b.keys) : b.keys[i] = key THEN b ELSE MapBuilder_entry(b, key, r)

\* entry of the four builders: r is value.to_tok_stream() for the maps
Builder_entry(b, key, r) ==
    IF b.kind \in SetKinds THEN MapBuilder_entry(b, key, UnitToks) ELSE MapBuilder_entry(b, key, r)

\* Display of phf_codegen::DisplayOrderedMap with the entries in slot order
DisplayOrderedMap_SlotOrder(b, state) ==
    TextOf(<<IdRustifact, PPath, IdInternal, PPath, IdPhf, PPath, IdOrderedMap, PLBrace,
             IdKey, PColon, Decimal(state.key), PComma, IdDisps, PColon, PAmp, PLBrack>>)
    \o Flatten([i \in 1..Len(state.disps) |->
                  TextOf(<<PLParen, Decimal(state.disps[i][1]), PComma,
                           Decimal(state.disps[i][2]), PRParen, PComma>>)])
    \o TextOf(<<PRBrack, PComma, IdIdxs, PColon, PAmp, PLBrack>>)
    \o Flatten([slot \in 1..Len(state.map) |-> TextOf(<<Decimal(slot - 1), PComma>>)])
    \o TextOf(<<PRBrack, PComma, IdEntries, PColon, PAmp, PLBrack>>)
    \o Flatten([slot \in 1..Len(state.map) |->
                  TextOf(<<PLParen>> \o Quoted(b.keys[state.map[slot]], "\"") \o <<PComma>>)
                  \o b.values[state.map[slot]] \o <<Sp>>
                  \o TextOf(<<PRParen, PComma>>)])
    \o to_string(<<PRBrack, PComma, PRBrace>>)

\* Display of phf_codegen::DisplayOrderedMap: idxs sends a slot to the position of its
\* entry, and the entries are in the order of the entry calls
DisplayOrderedMap(b, state) ==
    TextOf(<<IdRustifact, PPath, IdInternal, PPath, IdPhf, PPath, IdOrderedMap, PLBrace,
             IdKey, PColon, Decimal(state.key), PComma, IdDisps, PColon, PAmp, PLBrack>>)
    \o Flatten([i \in 1..Len(state.disps) |->
                  TextOf(<<PLParen, Decimal(state.disps[i][1]), PComma,
                           Decimal(state.disps[i][2]), PRParen, PComma>>)])
    \o TextOf(<<PRBrack, PComma, IdIdxs, PColon, PAmp, PLBrack>>)
    \o Flatten([slot \in 1..Len(state.map) |->
                  TextOf(<<Decimal(state.map[slot] - 1), PComma>>)])
    \o TextOf(<<PRBrack, PComma, IdEntries, PColon, PAmp, PLBrack>>)
    \o Flatten([i \in 1..Len(b.keys) |->
                  TextOf(<<PLParen>> \o Quoted(b.keys[i], "\"") \o <<PComma>>)
                  \o b.values[i] \o <<Sp>>
                  \o TextOf(<<PRParen, PComma>>)])
    \o to_string(<<PRBrack, PComma, PRBrace>>)

\* Display of DisplaySet and DisplayOrderedSet: Set { map: .. }, OrderedSet { map: .. }
DisplaySet(kind, inner) ==
    TextOf(<<IdRustifact, PPath, IdInternal, PPath, IdPhf, PPath, KindIdent(kind), PLBrace,
             IdMapField, PColon>>)
    \o inner \o <<Sp>> \o to_string(<<PRBrace>>)

\* self.0.build().to_string() of the four builders
DisplayBuilt(b, state) ==
    CASE b.kind = "Map" -> DisplayMap(b, state)
      [] b.kind = "OrderedMap" -> DisplayOrderedMap(b, state)
      [] b.kind = "Set" -> DisplaySet(b.kind, DisplayMap(b, state))
      [] OTHER -> DisplaySet(b.kind, DisplayOrderedMap(b, state))

\* quote! { rustifact::Set::init_raw(#t) } and the like, or panic!
WrapKindWhenParsed(kind, toks) ==
    IF toks # <<>> /\ ParseExpr(toks, 1) = Len(toks) + 1
    THEN Ok(<<IdRustifact, PPath, KindIdent(kind), PPath, IdInitRaw, PLParen>>
            \o toks \o <<PRParen>>)
    ELSE Panicked

\* impl ToTokenStream for MapBuilder, SetBuilder, OrderedMapBuilder, OrderedSetBuilder
BuilderToToks(b) ==
    IF HasDuplicate(b.keys) \/ ~Solved(b.keys) THEN Panicked
    ELSE WrapKindWhenParsed(b.kind, Lex(DisplayBuilt(b, generate_hash(b.keys))))

\* let mut b = ...Builder::new();
BuilderCreate ==
    \E kind \in BuilderKinds :
        /\ status = "running" /\ steps = 0 /\ script = <<>> /\ builder.kind # kind
        /\ builder' = BuilderNew(kind)
        /\ UNCHANGED <<fs, pkg, status, diag, last, wrote, included, steps, script, pos, mode,
                       snap, edits>>

\* b.entry(key, value), b.entry(key): before or after the builder has been written
BuilderEntry ==
    \E key \in MapKeys, v \in BuilderValues :
        /\ status = "running" /\ Len(builder.keys) < MaxEntries
        /\ builder.kind \in SetKinds => v = IntV("i32", 1)
        /\ Apply(EntryOutcome(key, to_tok_stream(v)))
        /\ builder' = Builder_entry(builder, key, to_tok_stream(v))
        /\ script' = Append(script, [op |-> "entry", key |-> key,
                                     value |-> IF builder.kind \in SetKinds THEN UnitV ELSE v])
        /\ UNCHANGED <<pkg, included, steps, pos, mode, snap, edits>>

\* write_static!(A, .., &b) and, later in the build script, write_static!(B, .., &b)
BuilderWriteAs(id, o) ==
    /\ status = "running" /\ steps < MaxScript
    /\ Apply(o)
    /\ steps' = steps + 1
    /\ script' = Append(script, [op |-> IF o.diag = NoDiag THEN "write" ELSE "failed",
                                 key |-> id, value |-> UnitV])
    /\ UNCHANGED <<pkg, included, pos, mode, snap, edits, builder>>
BuilderWrite ==
    BuilderWriteAs(IF steps = 0 THEN IdA ELSE IdB,
                   WriteSerialized("write_static", IF steps = 0 THEN IdA ELSE IdB, TypeT,
                                   BuilderToToks(builder)))

BuilderCleanBuild ==
    /\ script # <<>> \/ steps > 0
    /\ fs' = {} /\ wrote' = {} /\ script' = <<>> /\ steps' = 0
    /\ status' = "running" /\ diag' = NoDiag /\ last' = NoCall /\ included' = NoInclude
    /\ builder' = NoBuilder
    /\ UNCHANGED <<pkg, pos, mode, snap, edits>>

NextBuilder ==
    \/ BuilderCreate
    \/ BuilderEntry
    \/ BuilderWrite
    \/ Finish
    \/ use_symbols
    \/ BuilderCleanBuild

SpecBuilder == Init /\ [][NextBuilder]_vars

(***************************************************************************)
(* A build script that writes one group of declarations and may allow its  *)
(* export; the main crate imports the group.                               *)
(***************************************************************************)
GroupMacros == {"write_statics", "write_consts", "write_fns"}
GroupPairs == SeqsUpTo({IdX, IdY} \X DataToks, MaxLen)

GroupOutcome(op, vis, id_group, t, ids_data) ==
    IF op = "write_statics" THEN write_statics(vis, id_group, t, ids_data)
    ELSE IF op = "write_consts" THEN write_consts(vis, id_group, t, ids_data)
    ELSE write_fns(vis, id_group, t, ids_data)

GroupCall ==
    \E op \in GroupMacros, vis \in {"private", "public"}, ids_data \in GroupPairs :
        /\ status = "running" /\ script = <<>>
        /\ Apply(GroupOutcome(op, vis, IdA, TypeT, ids_data))
        /\ script' = <<[op |-> op, id |-> IdA, vis |-> vis, data |-> ids_data]>>
        /\ UNCHANGED <<pkg, included, steps, pos, mode, snap, edits, builder>>

\* allow_export!(A) after the group has been written
GroupExport ==
    /\ status = "running" /\ script # <<>> /\ last.op \in GroupMacros
    /\ Apply(allow_export(IdA))
    /\ UNCHANGED <<pkg, included, steps, rerunVars>>

NextGroup ==
    \/ GroupCall
    \/ GroupExport
    \/ Finish
    \/ use_symbols
    \/ export_symbols
    \/ CleanBuild

SpecGroup == Init /\ [][NextGroup]_vars

(***************************************************************************)
(* The properties of the emitter and of the artifact protocol.             *)
(***************************************************************************)
ArtifactPath(id, vis) == __path_from_id(OutDir, pkg, id, vis)
ReturnedNormally == status = "running" /\ last.op # "none"
\* the text is a file of items, or one expression
IsExprText(text) == LET toks == Lex(text) IN toks # <<>> /\ ParseExpr(toks, 1) = Len(toks) + 1
Parses(text) == parse_file(text).ok \/ IsExprText(text)
\* a write call for the name id has produced the private artifact of id
Generated(id) ==
    \E w \in wrote : /\ w.pkg = pkg /\ w.id = id /\ w.vis = "private"
                     /\ w.op \notin {"allow_export", "write_struct_uniform_init"}

\* C1: when the composed text does not parse, the run has panicked and the file at the
\* artifact's path holds exactly the unformatted text the failing call composed.
C1_RawTextLeftOnParseFailure ==
    diag.kind = "parse" =>
        /\ status = "panicked"
        /\ ~parse_file(last.text).ok
        /\ FsExists(fs, ArtifactPath(last.id, last.vis))
        /\ FsRead(fs, ArtifactPath(last.id, last.vis)) = last.text

C1_Witness ==
    /\ diag.kind = "parse" /\ last.op = "write_static" /\ last.id = IdA
    /\ FsRead(fs, ArtifactPath(IdA, "private")) = <<KwStatic, Sp, IdA, Sp, PColon, Sp, <<"T">>, Sp, PEq, Sp, PSemi>>

\* C2: the panic raised on a parse failure names the symbol given to the failing call,
\* with the parser's message and the path the unformatted text was written to.
C2_ParseDiagNamesSymbol ==
    diag.kind = "parse" =>
        /\ diag.sym = last.id
        /\ diag.err = parse_file(last.text).err
        /\ diag.path = ArtifactPath(last.id, last.vis)

C4_FormattedWholeFileOverwrite ==
    (last.op # "none" /\ last.path # <<>> /\ parse_file(last.text).ok) =>
        /\ last.path = ArtifactPath(last.id, last.vis)
        /\ Cardinality({e \in fs : e.path = last.path}) = 1
        /\ FsRead(fs, last.path) = unparse(parse_file(last.text).tree)

\* the file is overwritten: an earlier call of another kind wrote the same path
C4_Witness ==
    /\ last.op = "write_static" /\ parse_file(last.text).ok
    /\ \E w \in wrote : w.path = last.path /\ w.op = "write_statics"
    /\ FsRead(fs, last.path) = <<KwStatic, Sp, IdA, PColon, Sp, <<"T">>, Sp, PEq, Sp, <<"2">>, PSemi, Nl>>

\* C6: allow_export(name) panics unless a write call for name has produced the private
\* artifact; its own panic names the symbol and is raised only when none has.
C6_ExportNeedsPrivateArtifact ==
    last.op = "allow_export" =>
        /\ ~Generated(last.id) => (status = "panicked" /\ diag.kind \in {"export", "parse"})
        /\ diag.kind = "export" => (diag.sym = last.id /\ ~Generated(last.id))

C6_Witness ==
    /\ last.op = "allow_export" /\ status = "panicked" /\ diag.kind = "export"
    /\ fs # {}

\* C7: after a successful allow_export(name) the public file holds the tokens of the
\* private file after the token pub, in formatted form; for write_static!(A, T, 1) that
\* is pub static A: T = 1;
C7_PublicIsPubPrivate ==
    (last.op = "allow_export" /\ ReturnedNormally) =>
        LET priv == FsRead(fs, ArtifactPath(last.id, "private"))
            pub == FsRead(fs, ArtifactPath(last.id, "public"))
        IN  /\ FsExists(fs, ArtifactPath(last.id, "public"))
            /\ Lex(pub) = <<KwPub>> \o Lex(priv)
            /\ parse_file(pub).ok
            /\ pub = unparse(parse_file(pub).tree)
            /\ priv = <<KwStatic, Sp, IdA, PColon, Sp, <<"T">>, Sp, PEq, Sp, <<"1">>, PSemi, Nl>>
               => pub = <<KwPub, Sp, KwStatic, Sp, IdA, PColon, Sp, <<"T">>, Sp, PEq, Sp, <<"1">>, PSemi, Nl>>

C7_Witness ==
    /\ last.op = "allow_export" /\ ReturnedNormally /\ last.id = IdA
    /\ \E w \in wrote : w.op = "write_static" /\ w.id = IdA
    /\ Lex(FsRead(fs, ArtifactPath(IdA, "private")))
       = <<KwStatic, IdA, PColon, <<"T">>, PEq, <<"1">>, PSemi>>

\* C10: what the main crate includes for a name is the file the generation phase wrote
\* for it (use_symbols: the private path, export_symbols: the public path, init_symbols:
\* the path of write_struct_uniform_init), and the text included is that file's content.
C10_ImportReadsWhatWasWritten ==
    included.kind # "none" =>
        /\ \A w \in wrote :
              (/\ w.pkg = pkg /\ w.id = included.id
               /\ w.vis = (IF included.kind = "export" THEN "public" ELSE "private"))
              => (w.path = included.path /\ included.found)
        /\ included.found = FsExists(fs, included.path)
        /\ included.found => included.text = FsRead(fs, included.path)

C10_Witness ==
    /\ included.kind = "export" /\ included.found
    /\ \E w \in wrote : w.op = "allow_export" /\ w.id = included.id /\ w.path = included.path
    /\ Head(included.text) = KwPub

\* C5: when the same build script has run a second time, every file is what it was after
\* the first run, the same paths have been written, and the run has ended the same way.
C5_SecondRunIdentical ==
    (mode = "again" /\ status \in {"done", "panicked"}) =>
        /\ fs = snap.fs
        /\ wrote = snap.wrote
        /\ status = snap.status

\* C8: for every unit and every symbol name the private path and the public path differ,
\* and a unit that has written both artifacts of a name has written two files.
C8_VisibilitiesNeverCollide ==
    /\ \A n \in Names :
          __path_from_id(OutDir, pkg, n, "private") # __path_from_id(OutDir, pkg, n, "public")
    /\ \A w1, w2 \in wrote :
          (w1.pkg = w2.pkg /\ w1.id = w2.id /\ w1.vis # w2.vis) => w1.path # w2.path

C8_Witness ==
    \E w1, w2 \in wrote :
        /\ w1.pkg = w2.pkg /\ w1.id = w2.id /\ w1.vis = "private" /\ w2.vis = "public"
        /\ FsExists(fs, w1.path) /\ FsExists(fs, w2.path)

\* C9: two different (unit, symbol name, visibility) triples never write the same path.
C9_PathInjective ==
    \A w1, w2 \in wrote :
        (w1.pkg # w2.pkg \/ w1.id # w2.id \/ w1.vis # w2.vis) => w1.path # w2.path

(***************************************************************************)
(* The properties of the array and vector entry points, under SpecArray.   *)
(***************************************************************************)
\* the call of the build script has been made
Called == script # <<>> /\ last.op = script[1].op
TheCall == script[1]
FixedArrayMacros == {"write_static_array", "write_const_array", "write_array_fn"}

\* some container above the innermost level of a sample of nesting d is empty
RECURSIVE EmptyAboveLeaf(_, _)
EmptyAboveLeaf(d, sample) ==
    d > 1 /\ (Len(sample) = 0 \/ \E i \in 1..Len(sample) : EmptyAboveLeaf(d - 1, sample[i]))

\* one of sample, sample[0], sample[0][0], ... above the innermost level is empty
RECURSIVE EmptyOnFirstChain(_, _)
EmptyOnFirstChain(d, sample) ==
    d > 1 /\ (Len(sample) = 0 \/ EmptyOnFirstChain(d - 1, sample[1]))

C12_EmptyOuterTooShallow ==
    (Called /\ TheCall.op \in FixedArrayMacros /\ TheCall.explicit /\ TheCall.dim = 2
        /\ TheCall.data = <<>>) =>
        /\ status = "panicked" /\ diag.kind = "shallow"
        /\ fs = {} /\ wrote = {}

C12_Witness ==
    /\ Called /\ TheCall.op = "write_static_array" /\ TheCall.dim = 2 /\ TheCall.data = <<>>
    /\ status = "panicked"

\* the signature the claim gives: [T; len] at dimension 1, [inner of sample[0]; len] above
RECURSIVE Signature(_, _, _)
Signature(d, t, sample) ==
    <<PLBrack>> \o (IF d = 1 THEN t ELSE Signature(d - 1, t, sample[1]))
    \o <<PSemi, UsizeLit(Len(sample)), PRBrack>>

StartsWith(text, prefix) ==
    Len(text) >= Len(prefix) /\ SubSeq(text, 1, Len(prefix)) = prefix

DeclHead(c) ==
    IF c.op = "write_static_array" THEN <<KwStatic, c.id, PColon>>
    ELSE IF c.op = "write_const_array" THEN <<KwConst, c.id, PColon>>
    ELSE <<KwFn, c.id, PLParen, PRParen, PArrow>>

\* C13: for a fixed-size sample that passes the shape assertion the declared type is
\* [inner; len(sample)], inner being the signature of sample[0] one dimension down and
\* the element type at dimension 1.
C13_InferTypeFromFirstElements ==
    (Called /\ TheCall.op \in FixedArrayMacros /\ TheCall.dim \in 1..NUM_DIMS
        /\ diag.kind # "shallow") =>
        StartsWith(Lex(last.text),
                   DeclHead(TheCall) \o Signature(TheCall.dim, TypeT, TheCall.data))

C13_Witness ==
    /\ Called /\ TheCall.op = "write_static_array" /\ TheCall.dim = 2
    /\ TheCall.data = Rect(<<2, 2>>, <<>>) /\ status = "running"
    /\ StartsWith(Lex(last.text),
                  <<KwStatic, IdA, PColon, PLBrack, PLBrack>> \o TypeT
                  \o <<PSemi, UsizeLit(2), PRBrack, PSemi, UsizeLit(2), PRBrack, PEq>>)

\* the position of the first token l of toks
FirstIndex(toks, l) ==
    CHOOSE i \in 1..Len(toks) : toks[i] = l /\ \A j \in 1..(i - 1) : toks[j] # l

\* the expression of a declaration, as the main crate reads it from the file
ItemExpr(toks) ==
    IF toks[1] = KwFn
    THEN SubSeq(toks, FirstIndex(toks, PLBrace) + 1, Len(toks) - 1)
    ELSE SubSeq(toks, FirstIndex(toks, PEq) + 1, Len(toks) - 1)

\* what is between the brackets of [ ... ] or vec![ ... ]
ListBody(e) ==
    IF e[1] = IdVecMacro THEN SubSeq(e, 4, Len(e) - 1) ELSE SubSeq(e, 2, Len(e) - 1)

\* how many brackets are open before position i
OpenBefore(toks, i) ==
    Cardinality({j \in 1..(i - 1) : toks[j] \in {PLBrack, PLParen}})
    - Cardinality({j \in 1..(i - 1) : toks[j] \in {PRBrack, PRParen}})

\* the commas that separate the elements of a list body, with both of its ends
Cuts(body) ==
    {0, Len(body) + 1}
    \cup {i \in 1..Len(body) : body[i] = PComma /\ OpenBefore(body, i) = 0}
NthCut(cuts, n) == CHOOSE i \in cuts : Cardinality({j \in cuts : j < i}) = n - 1
ElementsBetween(body, cuts) ==
    [n \in 1..(Cardinality(cuts) - 1) |->
        SubSeq(body, NthCut(cuts, n) + 1, NthCut(cuts, n + 1) - 1)]
ElementsOf(e) == IF ListBody(e) = <<>> THEN <<>> ELSE ElementsBetween(ListBody(e), Cuts(ListBody(e)))

\* e[q1][q2]... in the main crate
RECURSIVE IndexExpr(_, _)
IndexExpr(e, q) == IF q = <<>> THEN e ELSE IndexExpr(ElementsOf(e)[Head(q)], Tail(q))
RECURSIVE IndexSample(_, _)
IndexSample(sample, q) == IF q = <<>> THEN sample ELSE IndexSample(sample[Head(q)], Tail(q))

\* expression e is a literal of d levels whose containers and elements are the sample's
RECURSIVE SameAtEveryPath(_, _, _)
SameAtEveryPath(d, e, sample) ==
    IF d = 0 THEN e = sample
    ELSE /\ e # <<>> /\ e[Len(e)] = PRBrack
         /\ Len(ElementsOf(e)) = Len(sample)
         /\ \A i \in 1..Len(sample) : SameAtEveryPath(d - 1, ElementsOf(e)[i], sample[i])

WrittenExpr == ItemExpr(Lex(FsRead(fs, last.path)))

\* C14: the literal an array or vector write of dimension D has put in the file has D
\* levels of nesting, every container of it has as many elements as the sample's at the
\* same index path, and every element is the sample's element at the same index path.
C14_LiteralMatchesSampleAtEveryPath ==
    (Called /\ TheCall.dim \in 1..NUM_DIMS /\ status = "running") =>
        SameAtEveryPath(TheCall.dim, WrittenExpr, TheCall.data)

\* GRID[1][0] of the 2 by 2 sample
C14_Witness ==
    /\ Called /\ TheCall.op = "write_static_array" /\ TheCall.dim = 2 /\ status = "running"
    /\ TheCall.data = Rect(<<2, 2>>, <<>>)
    /\ IndexExpr(WrittenExpr, <<2, 1>>) = IndexSample(TheCall.data, <<2, 1>>)
    /\ IndexExpr(WrittenExpr, <<2, 1>>) # IndexExpr(WrittenExpr, <<1, 1>>)

SameOutcome(o) ==
    /\ fs' = o.fs /\ diag' = o.diag /\ last' = o.last /\ wrote' = wrote \cup o.wrote

\* C15: a call without a dimension does what the call with dimension 1 does on the same
\* name, element type and sample: the same file, the same text, the same failure.
C15_DimensionDefaultsToOne ==
    [][(script = <<>> /\ script' # <<>> /\ ~script'[1].explicit) =>
          SameOutcome(public_entry_for(script'[1].op, script'[1].id, TypeT, 1,
                                       script'[1].data))]_vars

C15_Witness ==
    /\ Called /\ ~TheCall.explicit /\ TheCall.op = "write_vector_fn"
    /\ Len(TheCall.data) = 2 /\ status = "running" /\ FsExists(fs, last.path)

\* C16: a dimension is accepted exactly when it is in 1..16; with a dimension above 16
\* the call is rejected for its dimension and writes nothing.
C16_DimensionWithinOneAndSixteen ==
    (Called /\ TheCall.explicit) =>
        /\ diag.kind # "dimension" <=> TheCall.dim \in 1..16
        /\ TheCall.dim > 16 => (status = "panicked" /\ fs = {} /\ wrote = {})

C16_Witness ==
    /\ Called /\ TheCall.dim = 17 /\ diag.kind = "dimension" /\ fs = {}

(***************************************************************************)
(* The serialization rules.  A literal is read as the host grammar reads   *)
(* it: the suffix gives the numeric type, the digits the number, escapes   *)
(* are undone, and the brackets give the kind of aggregate.                *)
(***************************************************************************)
NumericTypes == SignedTypes \cup UnsignedTypes \cup FloatTypes
Unreadable == Value("unreadable", 0, "", <<>>, <<>>)

DigitVal(c) == CHOOSE n \in 0..9 : DigitChar(n) = c
RECURSIVE DecVal(_)
DecVal(ds) ==
    IF ds = <<>> THEN 0 ELSE 10 * DecVal(SubSeq(ds, 1, Len(ds) - 1)) + DigitVal(ds[Len(ds)])

\* how many digits the lexeme l begins with
DigitsLen(l) == Cardinality({k \in 1..Len(l) : \A j \in 1..k : l[j] \in Digits})

SuffixKind(suffix) ==
    IF \E ty \in NumericTypes : TypeChars(ty) = suffix
    THEN CHOOSE ty \in NumericTypes : TypeChars(ty) = suffix
    ELSE "unsuffixed"

\* the numeric literal l whose first n characters are its integer digits
ReadNumberAt(l, n, neg) ==
    IF Len(l) >= n + 2 /\ l[n + 1] = "." /\ l[n + 2] = "5"
    THEN Value(SuffixKind(SubSeq(l, n + 3, Len(l))),
               (IF neg THEN -1 ELSE 1) * (2 * DecVal(SubSeq(l, 1, n)) + 1), "finite", <<>>, <<>>)
    ELSE IF SuffixKind(SubSeq(l, n + 1, Len(l))) \in FloatTypes
    THEN Value(SuffixKind(SubSeq(l, n + 1, Len(l))),
               (IF neg THEN -1 ELSE 1) * 2 * DecVal(SubSeq(l, 1, n)), "finite", <<>>, <<>>)
    ELSE Value(SuffixKind(SubSeq(l, n + 1, Len(l))),
               (IF neg THEN -1 ELSE 1) * DecVal(SubSeq(l, 1, n)), "", <<>>, <<>>)

\* the characters a quoted body stands for
RECURSIVE Unescape(_)
Unescape(cs) ==
    IF cs = <<>> THEN <<>>
    ELSE IF cs[1] = "\\" /\ Len(cs) >= 2
    THEN <<(IF cs[2] = "n" THEN "\n" ELSE cs[2])>> \o Unescape(SubSeq(cs, 3, Len(cs)))
    ELSE <<cs[1]>> \o Unescape(Tail(cs))

ReadLiteral(l, neg) ==
    IF l[1] \in Digits THEN ReadNumberAt(l, DigitsLen(l), neg)
    ELSE IF l[1] = "'" THEN Value("char", 0, "", Unescape(SubSeq(l, 2, Len(l) - 1)), <<>>)
    ELSE Value("str", 0, "", Unescape(SubSeq(l, 2, Len(l) - 1)), <<>>)

\* the value the expression e denotes in the main crate
RECURSIVE ReadValue(_)
ReadItems(kind, es) == ItemsV(kind, [i \in 1..Len(es) |-> ReadValue(es[i])])
ReadValue(e) ==
    IF e = <<>> THEN Unreadable
    ELSE IF e[1] = PMinus /\ Len(e) = 2 /\ IsLit(e[2]) THEN ReadLiteral(e[2], TRUE)
    ELSE IF Len(e) = 1 /\ IsLit(e[1]) THEN ReadLiteral(e[1], FALSE)
    ELSE IF e = <<IdTrue>> THEN BoolV(TRUE)
    ELSE IF e = <<IdFalse>> THEN BoolV(FALSE)
    ELSE IF e = <<IdNone>> THEN ItemsV("option", <<>>)
    ELSE IF e[1] = IdSome /\ Len(e) >= 4
    THEN ItemsV("option", <<ReadValue(SubSeq(e, 3, Len(e) - 1))>>)
    ELSE IF e[1] = PLParen THEN ReadItems("tuple", ElementsOf(e))
    ELSE IF e[1] = PLBrack THEN ReadItems("array", ElementsOf(e))
    ELSE IF e[1] = IdVecMacro THEN ReadItems("vec", ElementsOf(e))
    ELSE Unreadable

\* the value a literal can show: a String reads as its text, a slice as an array, a
\* reference as what it refers to
RECURSIVE Canon(_)
CanonItems(kind, items) == ItemsV(kind, [i \in 1..Len(items) |-> Canon(items[i])])
Canon(v) ==
    IF v.kind = "String" THEN StrV(v.chars)
    ELSE IF v.kind = "ref" THEN Canon(v.items[1])
    ELSE IF v.kind = "slice" THEN CanonItems("array", v.items)
    ELSE IF v.kind \in {"array", "vec", "option", "tuple"} THEN CanonItems(v.kind, v.items)
    ELSE v

\* the slots of the literal, one for one and in order, are the items
SlotsAre(els, items) ==
    /\ Len(els) = Len(items)
    /\ \A i \in 1..Len(items) : ReadValue(els[i]) = Canon(items[i])

Wrote == Called /\ status # "panicked"
I32Lit(n) == Decimal(n) \o TypeChars("i32")

\* C17: the literal written for a tuple of 2 to 12 slots or for a sequence has as many
\* slots as the value has items, and slot i of the literal reads as item i of the value.
C17_SlotsKeepTheirOrder ==
    (Wrote /\ TheCall.value.kind \in {"tuple", "array", "slice", "vec"}) =>
        SlotsAre(ElementsOf(WrittenExpr), TheCall.value.items)

C17_Witness ==
    /\ Wrote /\ TheCall.value.kind = "tuple" /\ Len(TheCall.value.items) = MaxTupleArity
    /\ ElementsOf(WrittenExpr)[1] = <<I32Lit(1)>>
    /\ ElementsOf(WrittenExpr)[MaxTupleArity] = <<I32Lit(MaxTupleArity)>>

\* what use_symbols! brought into the main crate
ImportedExpr == ItemExpr(Lex(included.text))
Imported == Called /\ included.kind = "use" /\ included.id = TheCall.id /\ included.found

\* C18: an optional value is written as Some( ) around its inner serialization, or as
\* None, and the constant the main crate imports equals the value; Some(42) of type
\* Option<i32> is imported as Some(42).
C18_OptionRoundTrip ==
    /\ (Wrote /\ TheCall.value.kind = "option") =>
          IF TheCall.value.items = <<>> THEN WrittenExpr = <<IdNone>>
          ELSE /\ StartsWith(WrittenExpr, <<IdSome, PLParen>>)
               /\ WrittenExpr[Len(WrittenExpr)] = PRParen
               /\ ReadValue(SubSeq(WrittenExpr, 3, Len(WrittenExpr) - 1))
                     = Canon(TheCall.value.items[1])
    /\ (Imported /\ TheCall.value.kind = "option") => ReadValue(ImportedExpr) = Canon(TheCall.value)

C18_Witness ==
    /\ Imported /\ TheCall.op = "write_const"
    /\ TheCall.value = ItemsV("option", <<IntV("i32", 42)>>)
    /\ Lex(included.text)
          = <<KwConst, IdA, PColon, IdOption, PLt, TypeChars("i32"), PGt, PEq,
              IdSome, PLParen, I32Lit(42), PRParen, PSemi>>

IsScalar(v) == v.kind \in NumericTypes \cup {"bool", "char", "str", "String"}

\* C19: for every scalar value the serialization succeeds, and the literal written reads
\* back as the value, with the suffix of its numeric type.
C19_EveryScalarRoundTrips ==
    (Called /\ IsScalar(TheCall.value)) =>
        /\ status # "panicked"
        /\ ReadValue(WrittenExpr) = Canon(TheCall.value)

\* the scalars that are not a NaN or an infinity do
C19_FiniteScalarsRoundTrip ==
    (Called /\ IsScalar(TheCall.value) /\ TheCall.value.cls \in {"", "finite"}) =>
        /\ status # "panicked"
        /\ ReadValue(WrittenExpr) = Canon(TheCall.value)

C19_NonFinitePanics ==
    (Called /\ IsScalar(TheCall.value) /\ TheCall.value.cls \notin {"", "finite"}) =>
        /\ status = "panicked" /\ diag.kind = "serialize" /\ fs = {}

(***************************************************************************)
(* The map the main crate imports.                                         *)
(***************************************************************************)
\* the main crate: the expression e of the imported declaration evaluated to a Map
DepthAt(toks, i) ==
    Cardinality({j \in 1..(i - 1) : toks[j] \in {PLBrack, PLParen, PLBrace}})
    - Cardinality({j \in 1..(i - 1) : toks[j] \in {PRBrack, PRParen, PRBrace}})
FieldStart(toks, name) ==
    CHOOSE p \in 1..(Len(toks) - 1) :
        /\ toks[p] = name /\ toks[p + 1] = PColon
        /\ \A q \in 1..(p - 1) : ~(toks[q] = name /\ toks[q + 1] = PColon)
FieldEnd(toks, p) ==
    CHOOSE j \in (p + 2)..Len(toks) :
        /\ toks[j] \in {PComma, PRBrace} /\ DepthAt(toks, j) = DepthAt(toks, p)
        /\ \A q \in (p + 2)..(j - 1) :
              ~(toks[q] \in {PComma, PRBrace} /\ DepthAt(toks, q) = DepthAt(toks, p))
FieldExpr(toks, name) ==
    SubSeq(toks, FieldStart(toks, name) + 2, FieldEnd(toks, FieldStart(toks, name)) - 1)
\* the elements of &[ ... ]
SliceElements(e) == SelectSeq(ElementsOf(Tail(e)), LAMBDA x : x # <<>>)
PairsOf(es) == [i \in 1..Len(es) |-> ElementsOf(es[i])]
MapOfFields(key, disps, entries) ==
    [key |-> ReadValue(key).num,
     disps |-> [i \in 1..Len(disps) |-> <<ReadValue(disps[i][1]).num, ReadValue(disps[i][2]).num>>],
     entries |-> [i \in 1..Len(entries) |->
                    [key |-> ReadValue(entries[i][1]).chars, value |-> ReadValue(entries[i][2])]]]
Map_init_raw(e) ==
    MapOfFields(FieldExpr(e, IdKey), PairsOf(SliceElements(FieldExpr(e, IdDisps))),
                PairsOf(SliceElements(FieldExpr(e, IdEntries))))

\* Map::get without the comparison of the key in the slot
Map_get_AnySlot(m, key) ==
    IF m.disps = <<>> THEN ItemsV("option", <<>>)
    ELSE ItemsV("option",
                <<m.entries[get_index(hash(key, m.key), m.disps, Len(m.entries)) + 1].value>>)

\* Map::get, Map::len
Map_get(m, key) ==
    IF m.disps = <<>> THEN ItemsV("option", <<>>)
    ELSE IF m.entries[get_index(hash(key, m.key), m.disps, Len(m.entries)) + 1].key = key
    THEN ItemsV("option",
                <<m.entries[get_index(hash(key, m.key), m.disps, Len(m.entries)) + 1].value>>)
    ELSE ItemsV("option", <<>>)
Map_len(m) == Len(m.entries)

MapImported ==
    /\ last.op \in {"write_static", "write_const"} /\ included.kind = "use"
    /\ included.id = last.id /\ included.found
Some(v) == ItemsV("option", <<v>>)
None == ItemsV("option", <<>>)

\* the map answers for the entries of log and for no other key
AnswersFor(m, log) ==
    /\ \A i \in 1..Len(log) : Map_get(m, log[i].key) = Some(Canon(log[i].value))
    /\ \A key \in MapKeys : (\A i \in 1..Len(log) : log[i].key # key) => Map_get(m, key) = None
    /\ Map_len(m) = Len(log)

\* C20: a map built from entries with distinct keys and imported by the main crate
\* returns for every key added the value added with it, absent for every key never
\* added, and its len() is the number of entries.
C20_MapAnswersForItsEntries ==
    (MapImported /\ ~HasDuplicate(builder.keys)) =>
        AnswersFor(Map_init_raw(ImportedExpr), script)

C20_Witness ==
    /\ MapImported
    /\ script = <<[op |-> "entry", key |-> <<"a">>, value |-> IntV("i32", 1)],
                  [op |-> "entry", key |-> <<"b">>, value |-> IntV("i32", 2)]>>
    /\ Map_get(Map_init_raw(ImportedExpr), <<"a">>) = Some(IntV("i32", 1))
    /\ Map_get(Map_init_raw(ImportedExpr), <<"c">>) = None
    /\ Map_len(Map_init_raw(ImportedExpr)) = 2

(***************************************************************************)
(* The ordered containers the main crate imports, and the builder's life.  *)
(***************************************************************************)
Nums(es) == [i \in 1..Len(es) |-> ReadValue(es[i]).num]
OrderedMap_init_raw(e) ==
    [map |-> Map_init_raw(e), idxs |-> Nums(SliceElements(FieldExpr(e, IdIdxs)))]
\* OrderedMap::entries, OrderedSet::iter: the entries slice from its start to its end
OrderedMap_entries(m) == m.map.entries
OrderedSet_init_raw(e) == OrderedMap_init_raw(FieldExpr(e, IdMapField))
OrderedSet_iter(m) == [i \in 1..Len(m.map.entries) |-> m.map.entries[i].key]

\* OrderedMap::get_index: the slot's entry position, when its key is the key
OrderedMap_get_index(m, key) ==
    IF m.map.disps = <<>> THEN None
    ELSE IF m.map.entries[m.idxs[get_index(hash(key, m.map.key), m.map.disps, Len(m.idxs)) + 1] + 1].key = key
    THEN Some(IntV("usize", m.idxs[get_index(hash(key, m.map.key), m.map.disps, Len(m.idxs)) + 1]))
    ELSE None

\* the type of the container the expression e reconstructs
KindOfExpr(e) == IF Len(e) >= 3 THEN e[3] ELSE <<>>

\* the entry calls made before the builder was written to the artifact of id
WrittenAt(log, id) ==
    CHOOSE w \in 1..Len(log) :
        /\ log[w].op = "write" /\ log[w].key = id
        /\ \A x \in (w + 1)..Len(log) : ~(log[x].op = "write" /\ log[x].key = id)
EntriesBefore(log, id) ==
    SelectSeq(SubSeq(log, 1, WrittenAt(log, id) - 1), LAMBDA c : c.op = "entry")
BuilderImported ==
    /\ included.kind = "use" /\ included.found
    /\ \E w \in 1..Len(script) : script[w].op = "write" /\ script[w].key = included.id

SameEntries(entries, calls) ==
    /\ Len(entries) = Len(calls)
    /\ \A i \in 1..Len(calls) :
          entries[i].key = calls[i].key /\ entries[i].value = Canon(calls[i].value)
SameKeys(keys, calls) ==
    /\ Len(keys) = Len(calls)
    /\ \A i \in 1..Len(calls) : keys[i] = calls[i].key

\* C21: the ordered map the main crate imports iterates over its entries, and the ordered
\* set over its keys, in the order of the entry calls made on the builder before it was
\* written.
C21_IterationIsInsertionOrder ==
    /\ (BuilderImported /\ KindOfExpr(ImportedExpr) = IdOrderedMap) =>
          SameEntries(OrderedMap_entries(OrderedMap_init_raw(ImportedExpr)),
                      EntriesBefore(script, included.id))
    /\ (BuilderImported /\ KindOfExpr(ImportedExpr) = IdOrderedSet) =>
          SameKeys(OrderedSet_iter(OrderedSet_init_raw(ImportedExpr)),
                   EntriesBefore(script, included.id))

\* two keys whose slots are in the opposite order of their entry calls
C21_Witness ==
    /\ BuilderImported /\ KindOfExpr(ImportedExpr) = IdOrderedMap
    /\ Len(EntriesBefore(script, included.id)) = 2
    /\ OrderedMap_init_raw(ImportedExpr).idxs = <<1, 0>>
    /\ OrderedMap_entries(OrderedMap_init_raw(ImportedExpr))[1].key
          = EntriesBefore(script, included.id)[1].key
    /\ OrderedMap_get_index(OrderedMap_init_raw(ImportedExpr),
                            EntriesBefore(script, included.id)[2].key) = Some(IntV("usize", 1))

C21_WitnessSet ==
    /\ BuilderImported /\ KindOfExpr(ImportedExpr) = IdOrderedSet
    /\ OrderedSet_iter(OrderedSet_init_raw(ImportedExpr)) = <<(<<"c">>), (<<"a">>)>>

\* the builder has produced a container expression
Built == \E w \in 1..Len(script) : script[w].op = "write"
ExprsWritten == {ItemExpr(Lex(f.text)) : f \in fs}

\* C22: once the builder has produced its container expression no entry is added to
\* it, and the expressions it has produced are one and the same.
C22_BuilderNotReusable ==
    /\ [][Len(builder'.keys) > Len(builder.keys) => ~Built]_vars
    /\ [](Cardinality(ExprsWritten) <= 1)

\* the build script adds an entry to the builder it has written and writes it again
C22_Reused ==
    /\ status = "running" /\ builder.kind = "Map" /\ Len(script) = 4
    /\ script[1].op = "entry" /\ script[2].op = "write"
    /\ script[3].op = "entry" /\ script[4].op = "write"
    /\ Cardinality(ExprsWritten) = 2

\* the step is an entry call
EntryStep == Len(script') = Len(script) + 1 /\ script'[Len(script')].op = "entry"
WriteStep == Len(script') = Len(script) + 1 /\ script'[Len(script')].op \in {"write", "failed"}
LastCall == script[Len(script)]

\* C23: an entry call succeeds and adds its key to the builder whether or not the
\* builder already has the key; the run fails only when the builder is written, and
\* the write of a builder that has a key twice fails without writing.
C23_DuplicatesFailOnlyAtBuild ==
    /\ [][EntryStep => /\ status' = "running" /\ diag' = NoDiag /\ fs' = fs
                       /\ builder'.keys = Append(builder.keys, script'[Len(script')].key)
                       /\ Len(builder'.values) = Len(builder'.keys)]_vars
    /\ [](status = "panicked" => (script # <<>> /\ LastCall.op = "failed"))
    /\ [][(WriteStep /\ HasDuplicate(builder.keys))
            => /\ status' = "panicked" /\ script'[Len(script')].op = "failed"
               /\ fs' = fs]_vars

C23_Witness ==
    /\ Len(script) = 3 /\ script[1].op = "entry" /\ script[2].op = "entry"
    /\ script[1].key = script[2].key /\ builder.keys = <<script[1].key, script[2].key>>
    /\ LastCall.op = "failed" /\ status = "panicked" /\ diag.kind = "serialize" /\ fs = {}

(***************************************************************************)
(* Failures.                                                               *)
(***************************************************************************)
\* C24: once a call of the run has failed the run is over: no call of that run is made
\* after it, no artifact file is written or changed, and the failed call is not made
\* again; only a new run of the build script follows.
C24_FailureAbortsTheRun ==
    /\ [](diag # NoDiag => status = "panicked")
    /\ [][diag # NoDiag => /\ fs' = fs /\ wrote' = wrote /\ steps' = steps
                           /\ (last' = last \/ (last' = NoCall /\ diag' = NoDiag))]_vars

\* the first call wrote an artifact, the second failed, and a third could have followed
C24_Witness ==
    /\ status = "panicked" /\ diag.kind = "parse" /\ steps = 2 /\ steps < MaxSteps
    /\ \E w \in wrote : w.id # last.id

(***************************************************************************)
(* Groups of declarations.                                                 *)
(***************************************************************************)
GroupWritten == script # <<>> /\ script[1].op \in GroupMacros /\ status # "panicked"

\* the declaration of the pair e as the main crate reads it
GroupDecl(c, e) ==
    (IF c.vis = "public" THEN <<KwPub>> ELSE <<>>)
    \o (IF c.op = "write_fns"
        THEN <<KwFn, e[1], PLParen, PRParen, PArrow>> \o TypeT \o <<PLBrace>> \o e[2] \o <<PRBrace>>
        ELSE <<(IF c.op = "write_statics" THEN KwStatic ELSE KwConst), e[1], PColon>>
             \o TypeT \o <<PEq>> \o e[2] \o <<PSemi>>)
DeclsAre(tree, c) ==
    /\ Len(tree) = Len(c.data)
    /\ \A i \in 1..Len(c.data) : tree[i] = GroupDecl(c, c.data[i])

\* C25: a group call that returns has written one artifact, at the private path of the
\* group alias, whose declarations are those of the pairs, one for one and in the order of
\* the list, each with the pair's identifier, the common type and the pair's value, and
\* each public exactly when the call's visibility is public.
C25_GroupHasOneDeclarationPerPair ==
    (GroupWritten /\ last.op \in GroupMacros) =>
        /\ {f.path : f \in fs} = {ArtifactPath(TheCall.id, "private")}
        /\ parse_file(FsRead(fs, ArtifactPath(TheCall.id, "private"))).ok
        /\ DeclsAre(parse_file(FsRead(fs, ArtifactPath(TheCall.id, "private"))).tree, TheCall)

C25_Witness ==
    /\ GroupWritten /\ last.op = "write_consts" /\ TheCall.vis = "public"
    /\ TheCall.data = << <<IdY, Lit2>>, <<IdX, Lit1>> >>
    /\ Lex(FsRead(fs, ArtifactPath(IdA, "private")))
          = <<KwPub, KwConst, IdY, PColon, <<"T">>, PEq, <<"2">>, PSemi,
              KwPub, KwConst, IdX, PColon, <<"T">>, PEq, <<"1">>, PSemi>>

IsPublicDecl(item) == item # <<>> /\ item[1] = KwPub
Exported == GroupWritten /\ last.op = "allow_export" /\ TheCall.vis = "private"
PublicDeclsAre(pub, priv) ==
    /\ Len(pub) = Len(priv)
    /\ \A i \in 1..Len(pub) : IsPublicDecl(pub[i]) /\ Tail(pub[i]) = priv[i]

\* C30: after allow_export of a group written with private visibility and holding at
\* least one declaration, the public artifact holds the same declarations, every one of
\* them public.
C30_ExportedGroupIsAllPublic ==
    (Exported /\ Len(TheCall.data) >= 1) =>
        /\ parse_file(FsRead(fs, ArtifactPath(TheCall.id, "public"))).ok
        /\ PublicDeclsAre(parse_file(FsRead(fs, ArtifactPath(TheCall.id, "public"))).tree,
                          parse_file(FsRead(fs, ArtifactPath(TheCall.id, "private"))).tree)

\* a group of one declaration is exported whole
C30_SingleDeclarationIsPublic ==
    (Exported /\ Len(TheCall.data) = 1) =>
        /\ parse_file(FsRead(fs, ArtifactPath(TheCall.id, "public"))).ok
        /\ PublicDeclsAre(parse_file(FsRead(fs, ArtifactPath(TheCall.id, "public"))).tree,
                          parse_file(FsRead(fs, ArtifactPath(TheCall.id, "private"))).tree)

\* of two declarations the second stays private
C30_OnlyTheFirstIsPublic ==
    /\ Exported /\ Len(TheCall.data) = 2 /\ TheCall.op = "write_statics"
    /\ Lex(FsRead(fs, ArtifactPath(IdA, "public")))
          = <<KwPub, KwStatic, IdX, PColon, <<"T">>, PEq, <<"1">>, PSemi,
              KwStatic, IdY, PColon, <<"T">>, PEq, <<"2">>, PSemi>>

(***************************************************************************)
(* The depth of the dispatch.                                              *)
(***************************************************************************)
IsFnMacro(op) == op \in {"write_array_fn", "write_vector_fn"}
\* the type of the declaration: what follows its head, up to = or {
DeclType(toks, c) ==
    SubSeq(toks, Len(DeclHead(c)) + 1,
           FirstIndex(toks, IF IsFnMacro(c.op) THEN PLBrace ELSE PEq) - 1)

\* [ ... [T; n] ...; n]: d brackets open, T, and d times ; n ]
FixedLevels(ty, d) ==
    /\ Len(ty) = 4 * d + 1
    /\ \A k \in 1..d : ty[k] = PLBrack
    /\ ty[d + 1] = TypeT[1]
    /\ \A k \in 1..d : /\ ty[d + 3 * k - 1] = PSemi /\ IsLit(ty[d + 3 * k])
                       /\ ty[d + 3 * k + 1] = PRBrack
\* Vec< ... Vec<T> ... >: d times Vec <, T, and d times >
GrowableLevels(ty, d) ==
    /\ Len(ty) = 3 * d + 1
    /\ \A k \in 1..d : ty[2 * k - 1] = IdVec /\ ty[2 * k] = PLt
    /\ ty[2 * d + 1] = TypeT[1]
    /\ \A k \in 1..d : ty[2 * d + 1 + k] = PGt

\* C26: for every dimension D from 1 to 16 whose sample passes the shape assertion the
\* dispatch ends, and the type of the declaration has exactly D levels: D nested
\* [..; len] for the fixed-size macros, D nested Vec<..> for write_vector_fn.
C26_SignatureHasDLevels ==
    (Called /\ TheCall.dim \in 1..NUM_DIMS /\ diag.kind # "shallow") =>
        /\ StartsWith(Lex(last.text), DeclHead(TheCall))
        /\ IF TheCall.op \in FixedArrayMacros
           THEN FixedLevels(DeclType(Lex(last.text), TheCall), TheCall.dim)
           ELSE GrowableLevels(DeclType(Lex(last.text), TheCall), TheCall.dim)

C26_Witness ==
    /\ Called /\ TheCall.op = "write_vector_fn" /\ TheCall.dim = NUM_DIMS - 1
    /\ status = "running"
    /\ GrowableLevels(DeclType(Lex(FsRead(fs, last.path)), TheCall), NUM_DIMS - 1)

C26_WitnessFixed ==
    /\ Called /\ TheCall.op = "write_const_array" /\ TheCall.dim = NUM_DIMS
    /\ status = "running"
    /\ FixedLevels(DeclType(Lex(FsRead(fs, last.path)), TheCall), NUM_DIMS)

(***************************************************************************)
(* The owner of a file.                                                    *)
(***************************************************************************)
\* C27: the file a write_struct_uniform_init call has written is written by no call for
\* another symbol name.
C27_InitFileHasOneOwner ==
    \A w1, w2 \in wrote :
        (w1.op = "write_struct_uniform_init" /\ w1.pkg = w2.pkg /\ w1.path = w2.path)
            => w2.op = "write_struct_uniform_init"

\* write_struct_uniform_init!(A, B, ..) and write_static!(A_B, ..) have written one file
C27_SharedFile ==
    \E w1, w2 \in wrote :
        /\ w1.op = "write_struct_uniform_init" /\ w2.op = "write_static" /\ w2.id = IdAB
        /\ w1.path = w2.path /\ w1.path = ArtifactPath(IdAB, "private")

(***************************************************************************)
(* Failures before the write.                                              *)
(***************************************************************************)
EarlyFailures == {"shallow", "export", "type"}

\* C28: a call that fails with a shape error "too shallow", an allow_export that finds
\* no private artifact, and a write_struct whose field type does not parse leave every
\* file as it was: none is created, none is changed, and the failed allow_export leaves
\* no public artifact.
C28_EarlyFailuresLeaveFilesUnchanged ==
    [][(diag = NoDiag /\ diag'.kind \in EarlyFailures) =>
          /\ fs' = fs /\ wrote' = wrote /\ status' = "panicked"
          /\ (diag'.kind = "export" => ~FsExists(fs', ArtifactPath(last'.id, "public")))]_vars

\* after an artifact was written, a write_struct call has failed on a field type
C28_Witness ==
    /\ status = "panicked" /\ diag.kind = "type" /\ last.op = "write_struct"
    /\ steps = 2 /\ Cardinality(fs) = 1 /\ Cardinality(wrote) = 1

C28_WitnessShallow ==
    /\ status = "panicked" /\ diag.kind = "shallow" /\ steps = 2 /\ Cardinality(fs) = 1

C28_WitnessExport ==
    /\ status = "panicked" /\ diag.kind = "export" /\ steps = 2 /\ Cardinality(fs) = 1

(***************************************************************************)
(* The lengths of the type and the lengths of the literal.                 *)
(***************************************************************************)
\* the containers at level k of the literal e, level 1 being e itself
RECURSIVE ContainersAt(_, _)
ContainersAt(e, k) ==
    IF k = 1 THEN {e}
    ELSE UNION {ContainersAt(ElementsOf(e)[i], k - 1) : i \in 1..Len(ElementsOf(e))}

\* the length the type [ .. ; n] of d levels states at level k
StatedLength(ty, d, k) == ty[d + 3 * (d - k + 1)]

LengthsAgree(ty, e, d) ==
    \A k \in 1..d : \A c \in ContainersAt(e, k) :
        UsizeLit(Len(ElementsOf(c))) = StatedLength(ty, d, k)

\* the containers at level k of the sample
RECURSIVE SampleContainersAt(_, _)
SampleContainersAt(sample, k) ==
    IF k = 1 THEN {sample}
    ELSE UNION {SampleContainersAt(sample[i], k - 1) : i \in 1..Len(sample)}

IsRectangular(d, sample) ==
    \A k \in 1..d : \A a, b \in SampleContainersAt(sample, k) : Len(a) = Len(b)

FixedWritten ==
    /\ Called /\ TheCall.op \in FixedArrayMacros /\ TheCall.dim \in 1..NUM_DIMS
    /\ status = "running"

\* C29: in what a fixed-size macro has written, the length the type states at each
\* level is the length of every container at that level of the literal, whether or not
\* the sample's sibling containers have one length.
C29_TypeLengthsAreLiteralLengths ==
    FixedWritten =>
        LengthsAgree(DeclType(Lex(FsRead(fs, last.path)), TheCall), WrittenExpr, TheCall.dim)

\* they agree when the sample is rectangular
C29_RectangularLengthsAgree ==
    (FixedWritten /\ IsRectangular(TheCall.dim, TheCall.data)) =>
        LengthsAgree(DeclType(Lex(FsRead(fs, last.path)), TheCall), WrittenExpr, TheCall.dim)

\* a sample whose second row is shorter than its first is written as [[T; 2]; 2]
C29_Ragged ==
    /\ FixedWritten /\ TheCall.dim = 2 /\ Len(TheCall.data) = 2
    /\ Len(TheCall.data[1]) = 2 /\ Len(TheCall.data[2]) = 0
    /\ StatedLength(DeclType(Lex(FsRead(fs, last.path)), TheCall), 2, 2) = UsizeLit(2)
    /\ ElementsOf(ElementsOf(WrittenExpr)[2]) = <<>>

====
